---- MODULE Spec2Model ----
(***************************************************************************)
(* Model of the word-cloud layout engine of wordClaude.tsx: value          *)
(* normalisation, font sizing, rotated-rectangle geometry, the spiral      *)
(* search of processWords, the statistics the WordCloud component derives  *)
(* from a finished layout, the component's measured dimensions and its     *)
(* repeated layouts, and the packing configuration App.tsx assembles.      *)
(*                                                                         *)
(* Numbers.  The program computes in IEEE doubles.  The model computes in  *)
(* fixed point: every length and coordinate is an integer number of UNITs, *)
(* UNIT = 1/232 px, so that halves, eighths and the 29ths of the rotation  *)
(* table are exact; every division truncates to that grid.  Ratios that    *)
(* decide a branch (segment parameters, the ray-casting test, the          *)
(* normalised value) are kept as numerator/denominator pairs and compared  *)
(* by cross-multiplication, so those comparisons are exact.                *)
(***************************************************************************)
EXTENDS Integers, Sequences, FiniteSets, TLC

\* ------------------------------------------------------------------ bounds

\* Longest input word list.
MaxWords == 2

\* Units per pixel: 8 * 29.
UNIT == 8 * 29

Px(n) == n * UNIT

Min2(a, b) == IF a <= b THEN a ELSE b

Max2(a, b) == IF a >= b THEN a ELSE b

Abs(a) == IF a < 0 THEN 0 - a ELSE a

\* A ratio n/d with d > 0, as the pair the code's division result stands for.
Ratio(n, d) == [n |-> n, d |-> d]

\* ------------------------------------------------------- program constants

MIN_DIMENSION == 100

DEFAULT_FONT_CONFIG ==
  [min |-> 3, max |-> 15, scaleFactor10 |-> 10,
   wordCountScaling |-> [enabled |-> TRUE, minScale10 |-> 5, maxScale10 |-> 20,
                         threshold |-> 50]]

\* The fontConfig App assembles from its own defaults: range 1..10, scale
\* factor 1.2, word-count scaling 0.4..1.5 with threshold 50.
APP_FONT_CONFIG ==
  [min |-> 1, max |-> 10, scaleFactor10 |-> 12,
   wordCountScaling |-> [enabled |-> TRUE, minScale10 |-> 4, maxScale10 |-> 15,
                         threshold |-> 50]]

\* factor is carried in tenths (factor10 = 10 is factor 1.0).
DEFAULT_PACKING_CONFIG ==
  [factor10 |-> 10, strategy |-> "adaptive", minSpacing |-> 2,
   bruteForce |-> TRUE, maxAttempts |-> 500, spiralDensity |-> 12]

\* ---------------------------------------------------------------- Math.log

\* 1000 * ln(k) for k = 1..10, rounded.
LnTable == <<0, 693, 1099, 1386, 1609, 1792, 1946, 2079, 2197, 2303>>

\* 1000 * Math.log(x) for an integer x in 1..10.
Log(x) == LnTable[x]

\* Math.log(Math.max(epsilon, x)) in thousandths for an integer x, with
\* epsilon = 0.000001 (ln epsilon = -13.816).
LogClamped(x) == IF x <= 0 THEN 0 - 13816 ELSE Log(x)

\* ----------------------------------------------------------- normalizeValue

normalizeValueGuardsSwapped(value, minValue, maxValue, scaleType) ==
  IF value <= 0 THEN Ratio(0, 1)
  ELSE IF minValue = maxValue THEN Ratio(1, 2)
  ELSE IF scaleType = "logarithmic"
       THEN Ratio(LogClamped(value) - LogClamped(minValue),
                  LogClamped(maxValue) - LogClamped(minValue))
       ELSE Ratio(value - minValue, maxValue - minValue)

normalizeValueNoNonPositiveGuard(value, minValue, maxValue, scaleType) ==
  IF minValue = maxValue THEN Ratio(1, 2)
  ELSE IF scaleType = "logarithmic"
       THEN Ratio(LogClamped(value) - LogClamped(minValue),
                  LogClamped(maxValue) - LogClamped(minValue))
       ELSE Ratio(value - minValue, maxValue - minValue)

normalizeValue(value, minValue, maxValue, scaleType) ==
  IF minValue = maxValue THEN Ratio(1, 2)
  ELSE IF value <= 0 THEN Ratio(0, 1)
  ELSE IF scaleType = "logarithmic"
       THEN Ratio(LogClamped(value) - LogClamped(minValue),
                  LogClamped(maxValue) - LogClamped(minValue))
       ELSE Ratio(value - minValue, maxValue - minValue)

\* --------------------------------------------------------- calculateFontSize

\* The word-count scale in tenths.  Above the threshold the code takes
\* max(minScale, maxScale * log(threshold) / log(wordCount)).
WordCountScale10(wcs, wordCount) ==
  IF wordCount <= wcs.threshold
  THEN wcs.maxScale10
  ELSE Max2(wcs.minScale10,
            (wcs.maxScale10 * Log(wcs.threshold)) \div Log(wordCount))

calculateFontSizeUnclamped(containerSize, wordCount, fontConfig, nv) ==
  LET referenceSize == Min2(containerSize.width, containerSize.height)
      minSize == (fontConfig.min * referenceSize) \div 100
      maxSize == (fontConfig.max * referenceSize) \div 100
      interpolated == minSize + ((maxSize - minSize) * nv.n) \div nv.d
      scaled == IF fontConfig.wordCountScaling.enabled
                THEN (interpolated
                        * WordCountScale10(fontConfig.wordCountScaling, wordCount)) \div 10
                ELSE interpolated
  IN  IF fontConfig.scaleFactor10 # 0
      THEN (scaled * fontConfig.scaleFactor10) \div 10
      ELSE scaled

calculateFontSizeInverted(containerSize, wordCount, fontConfig, nv) ==
  LET referenceSize == Min2(containerSize.width, containerSize.height)
      minSize == (fontConfig.min * referenceSize) \div 100
      maxSize == (fontConfig.max * referenceSize) \div 100
      interpolated == maxSize - ((maxSize - minSize) * nv.n) \div nv.d
      scaled == IF fontConfig.wordCountScaling.enabled
                THEN (interpolated
                        * WordCountScale10(fontConfig.wordCountScaling, wordCount)) \div 10
                ELSE interpolated
      fontSize == IF fontConfig.scaleFactor10 # 0
                  THEN (scaled * fontConfig.scaleFactor10) \div 10
                  ELSE scaled
      absoluteMin == Px(8)
      absoluteMax == (referenceSize * 8) \div 10
  IN  Min2(Max2(fontSize, absoluteMin), absoluteMax)

\* containerSize is [width, height] in units; the result is in units.
calculateFontSize(containerSize, wordCount, fontConfig, nv) ==
  LET referenceSize == Min2(containerSize.width, containerSize.height)
      minSize == (fontConfig.min * referenceSize) \div 100
      maxSize == (fontConfig.max * referenceSize) \div 100
      interpolated == minSize + ((maxSize - minSize) * nv.n) \div nv.d
      scaled == IF fontConfig.wordCountScaling.enabled
                THEN (interpolated
                        * WordCountScale10(fontConfig.wordCountScaling, wordCount)) \div 10
                ELSE interpolated
      fontSize == IF fontConfig.scaleFactor10 # 0
                  THEN (scaled * fontConfig.scaleFactor10) \div 10
                  ELSE scaled
      absoluteMin == Px(8)
      absoluteMax == (referenceSize * 8) \div 10
  IN  Min2(Max2(fontSize, absoluteMin), absoluteMax)

\* ------------------------------------------------------------ getWordSpacing

getWordSpacingInverted(wordWidth, wordHeight, packingConfig, nv) ==
  LET baseSpacing == Max2(Px(packingConfig.minSpacing),
                          (Min2(wordWidth, wordHeight) * 15) \div 100)
  IN  IF packingConfig.strategy = "uniform"
      THEN (baseSpacing * packingConfig.factor10) \div 10
      ELSE (((baseSpacing * packingConfig.factor10) \div 10) * (2 * nv.d - nv.n))
             \div (2 * nv.d)

\* width and height of the measured word in units; the result is in units.
getWordSpacing(wordWidth, wordHeight, packingConfig, nv) ==
  LET baseSpacing == Max2(Px(packingConfig.minSpacing),
                          (Min2(wordWidth, wordHeight) * 15) \div 100)
  IN  IF packingConfig.strategy = "uniform"
      THEN (baseSpacing * packingConfig.factor10) \div 10
      ELSE \* importanceFactor = 0.5 + normalizedValue * 0.5 = (d + n) / 2d
           (((baseSpacing * packingConfig.factor10) \div 10) * (nv.d + nv.n))
             \div (2 * nv.d)

\* ------------------------------------------------------------------ geometry

Point(x, y) == [x |-> x, y |-> y]

\* A rotation angle whose cosine and sine are the exact rationals c/29 and
\* s/29; deg10 is the angle in tenths of a degree.  43.6 and 46.4 degrees are
\* (21/29, 20/29) and (20/29, 21/29), since 20^2 + 21^2 = 29^2.
Angle(deg10, c, s) == [deg10 |-> deg10, c |-> c, s |-> s]

Rot0 == Angle(0, 29, 0)

Rot90 == Angle(900, 0, 29)

RotM90 == Angle(0 - 900, 0, 0 - 29)

Rot45Lo == Angle(436, 21, 20)

Rot45Hi == Angle(464, 20, 21)

RotM45Lo == Angle(0 - 464, 20, 0 - 21)

RotM45Hi == Angle(0 - 436, 21, 0 - 20)

\* ua = uaN / denominator and ub = ubN / denominator; "0 <= u <= 1" is decided
\* on the numerators by the sign of the denominator.
doLineSegmentsIntersect(p1, p2, p3, p4) ==
  LET denominator == (p4.y - p3.y) * (p2.x - p1.x) - (p4.x - p3.x) * (p2.y - p1.y)
      uaN == (p4.x - p3.x) * (p1.y - p3.y) - (p4.y - p3.y) * (p1.x - p3.x)
      ubN == (p2.x - p1.x) * (p1.y - p3.y) - (p2.y - p1.y) * (p1.x - p3.x)
      In01(n) == IF denominator > 0 THEN 0 <= n /\ n <= denominator
                 ELSE denominator <= n /\ n <= 0
  IN  IF denominator = 0 THEN FALSE ELSE In01(uaN) /\ In01(ubN)

getRotatedBoundingBoxDefaultPadding(centerX, centerY, width, height, rotation, spacing) ==
  LET padding == IF spacing # 0 THEN spacing ELSE (Max2(width, height) * 15) \div 100
      w == width + padding * 2
      h == height + padding * 2
      halfWidth == w \div 2
      halfHeight == h \div 2
      corners == << Point(0 - halfWidth, 0 - halfHeight), Point(halfWidth, 0 - halfHeight),
                    Point(halfWidth, halfHeight), Point(0 - halfWidth, halfHeight) >>
  IN  [points |->
        [i \in 1..4 |->
          Point(centerX + (corners[i].x * rotation.c - corners[i].y * rotation.s) \div 29,
                centerY + (corners[i].x * rotation.s + corners[i].y * rotation.c) \div 29)]]

\* Corners in the code's order, each rotated about the centre.
getRotatedBoundingBox(centerX, centerY, width, height, rotation, spacing) ==
  LET w == width + spacing * 2
      h == height + spacing * 2
      halfWidth == w \div 2
      halfHeight == h \div 2
      corners == << Point(0 - halfWidth, 0 - halfHeight), Point(halfWidth, 0 - halfHeight),
                    Point(halfWidth, halfHeight), Point(0 - halfWidth, halfHeight) >>
  IN  [points |->
        [i \in 1..4 |->
          Point(centerX + (corners[i].x * rotation.c - corners[i].y * rotation.s) \div 29,
                centerY + (corners[i].x * rotation.s + corners[i].y * rotation.c) \div 29)]]

SetMin(S) == CHOOSE m \in S : \A e \in S : m <= e

SetMax(S) == CHOOSE m \in S : \A e \in S : m >= e

\* minX, maxX, minY, maxY over the points of a box.
Bounds(box) ==
  LET xs == {box.points[i].x : i \in DOMAIN box.points}
      ys == {box.points[i].y : i \in DOMAIN box.points}
  IN  [minX |-> SetMin(xs), maxX |-> SetMax(xs), minY |-> SetMin(ys), maxY |-> SetMax(ys)]

\* One edge of the ray-casting loop: the edge from points[j] to points[i]
\* crosses the horizontal ray to the right of point.  The code's comparison
\* point.x < (xj - xi) * (point.y - yi) / (yj - yi) + xi is multiplied out by
\* yj - yi, which is not zero whenever the first conjunct holds.
RayCrosses(point, pi, pj) ==
  /\ (pi.y > point.y) # (pj.y > point.y)
  /\ IF pj.y - pi.y > 0
     THEN (point.x - pi.x) * (pj.y - pi.y) < (pj.x - pi.x) * (point.y - pi.y)
     ELSE (point.x - pi.x) * (pj.y - pi.y) > (pj.x - pi.x) * (point.y - pi.y)

\* inside is toggled once per crossing edge: true iff the count is odd.
isPointInsideBox(point, box) ==
  LET n == Len(box.points)
      crossing == {i \in 1..n :
                     RayCrosses(point, box.points[i],
                                box.points[IF i = 1 THEN n ELSE i - 1])}
  IN  Cardinality(crossing) % 2 = 1

checkBoundingBoxesIntersectEdgesOnly(box1, box2) ==
  \E i \in 1..Len(box1.points), j \in 1..Len(box2.points) :
    doLineSegmentsIntersect(box1.points[i], box1.points[(i % Len(box1.points)) + 1],
                            box2.points[j], box2.points[(j % Len(box2.points)) + 1])

checkBoundingBoxesIntersectStrictReject(box1, box2) ==
  LET box1Bounds == Bounds(box1)
      box2Bounds == Bounds(box2)
  IN  /\ box1Bounds.maxX > box2Bounds.minX
      /\ box1Bounds.minX < box2Bounds.maxX
      /\ box1Bounds.maxY > box2Bounds.minY
      /\ box1Bounds.minY < box2Bounds.maxY
      /\ \/ checkBoundingBoxesIntersectEdgesOnly(box1, box2)
         \/ isPointInsideBox(box1.points[1], box2)
         \/ isPointInsideBox(box2.points[1], box1)

checkBoundingBoxesIntersect(box1, box2) ==
  LET box1Bounds == Bounds(box1)
      box2Bounds == Bounds(box2)
      n1 == Len(box1.points)
      n2 == Len(box2.points)
  IN  IF \/ box1Bounds.maxX < box2Bounds.minX
         \/ box1Bounds.minX > box2Bounds.maxX
         \/ box1Bounds.maxY < box2Bounds.minY
         \/ box1Bounds.minY > box2Bounds.maxY
      THEN FALSE
      ELSE IF \E i \in 1..n1, j \in 1..n2 :
                doLineSegmentsIntersect(box1.points[i], box1.points[(i % n1) + 1],
                                        box2.points[j], box2.points[(j % n2) + 1])
           THEN TRUE
           ELSE \/ isPointInsideBox(box1.points[1], box2)
                \/ isPointInsideBox(box2.points[1], box1)

\* The earlier variant: every edge pair, then the first vertex of each box
\* against the other box, without the bounds test.  Its doLineSegmentsIntersect
\* and isPointInsideBox are the same code.
checkBoundingBoxesIntersectEarlier(box1, box2) ==
  LET n1 == Len(box1.points)
      n2 == Len(box2.points)
  IN  IF \E i \in 1..n1, j \in 1..n2 :
           doLineSegmentsIntersect(box1.points[i], box1.points[(i % n1) + 1],
                                   box2.points[j], box2.points[(j % n2) + 1])
      THEN TRUE
      ELSE \/ isPointInsideBox(box1.points[1], box2)
           \/ isPointInsideBox(box2.points[1], box1)

\* --------------------------------------------------------------- Math.sqrt

RECURSIVE SqrtSearch(_, _, _)
SqrtSearch(n, lo, hi) ==
  IF lo >= hi THEN lo
  ELSE LET mid == (lo + hi + 1) \div 2
       IN  IF mid * mid <= n THEN SqrtSearch(n, mid, hi) ELSE SqrtSearch(n, lo, mid - 1)

\* Math.sqrt truncated to the unit grid (exact on perfect squares).
Sqrt(n) == SqrtSearch(n, 0, 46340)

\* ---------------------------------------------------------------- Math.exp

\* 1000 * exp(-y / 1000) for 0 <= y <= 1000 by the cubic Taylor polynomial.
ExpNegSmall(y) == 1000 - y + (y * y) \div 2000 - (y * y * y) \div 6000000

Square1000(e) == (e * e) \div 1000

\* 1000 * Math.exp(-x / 1000) for x >= 0: exp(-x) = exp(-x / 16) ^ 16.
\* The result does not increase when x increases.
ExpNeg(x) ==
  Square1000(Square1000(Square1000(Square1000(ExpNegSmall(Min2(x \div 16, 1000))))))

\* --------------------------------------------------------- getSpiralPosition

\* packingConfig.spiralDensity || 12
BaseDensity(packingConfig) ==
  IF packingConfig.spiralDensity # 0 THEN packingConfig.spiralDensity ELSE 12

\* angle = t * 2 * PI * spiralDensity, counted in eighths of a turn (PI / 4):
\* 8 * (attempt / maxAttempts) * baseDensity * (2 - factor).
EighthTurns(attempt, maxAttempts, packingConfig) ==
  (8 * attempt * BaseDensity(packingConfig) * (20 - packingConfig.factor10))
    \div (10 * maxAttempts)

\* The configurations whose spiral angle is a whole number of eighths of a
\* turn at every attempt, and those where it is a whole number of quarter
\* turns: there Math.cos and Math.sin are 0, 1 or -1.
EighthTurnSpiral(maxAttempts, packingConfig) ==
  (8 * BaseDensity(packingConfig) * (20 - packingConfig.factor10)) % (10 * maxAttempts) = 0

QuarterTurnSpiral(maxAttempts, packingConfig) ==
  (4 * BaseDensity(packingConfig) * (20 - packingConfig.factor10)) % (10 * maxAttempts) = 0

\* 985 * Math.cos(e * PI / 4) and 985 * Math.sin(e * PI / 4): exact on the
\* axes, and on the diagonals the rationals 697/985 and 696/985
\* (697^2 + 696^2 = 985^2) next to 0.7071.
CosE(e) ==
  CASE e % 8 = 0 -> 985 [] e % 8 = 1 -> 697 [] e % 8 = 2 -> 0 [] e % 8 = 3 -> 0 - 696
    [] e % 8 = 4 -> 0 - 985 [] e % 8 = 5 -> 0 - 697 [] e % 8 = 6 -> 0 [] OTHER -> 696

SinE(e) ==
  CASE e % 8 = 0 -> 0 [] e % 8 = 1 -> 696 [] e % 8 = 2 -> 985 [] e % 8 = 3 -> 697
    [] e % 8 = 4 -> 0 [] e % 8 = 5 -> 0 - 696 [] e % 8 = 6 -> 0 - 985 [] OTHER -> 0 - 697

\* radius * (n / 985), rounded to the unit grid towards zero.
Scaled(radius, n) ==
  IF n >= 0 THEN (radius * n) \div 985 ELSE 0 - ((radius * (0 - n)) \div 985)

\* radius = initialRadius + (maxRadius - initialRadius) * (1 - exp(-spiralGrowth * 3))
\* with spiralGrowth = (1 - nv * 0.5) * (t * 1.5) * (1 / factor); the exponent
\* 3 * spiralGrowth is carried in thousandths.
SpiralRadius(attempt, maxAttempts, nv, width, height, packingConfig) ==
  LET importance1000 == 1000 - (500 * nv.n) \div nv.d
      exponent1000 == (45 * importance1000 * attempt)
                        \div (maxAttempts * packingConfig.factor10)
      containerSize == Min2(width, height)
      initialRadius == (containerSize * 5 * packingConfig.factor10) \div 1000
      maxRadius == (containerSize * 45) \div 100
  IN  initialRadius
        + ((maxRadius - initialRadius) * (1000 - ExpNeg(exponent1000))) \div 1000

\* The rotations Math.random can produce at this attempt.  The jitter term is
\* sampled where the cosine and sine are rational: no jitter for the bases 0,
\* 90 and -90, and -1.4 or +1.4 degrees for the bases 45 and -45.
RotationChoices(attempt, maxAttempts, packingConfig, rotationMode) ==
  IF rotationMode = "orthogonal"
  THEN {Rot0, RotM90}
  ELSE IF packingConfig.bruteForce
       THEN LET rotationIndex == (4 * attempt) \div maxAttempts
            IN  CASE rotationIndex = 1 -> {Rot45Lo, Rot45Hi}
                  [] rotationIndex = 2 -> {Rot90}
                  [] rotationIndex = 3 -> {RotM45Lo, RotM45Hi}
                  [] OTHER -> {Rot0}
       ELSE {Rot0, Rot90}

\* The position part of the result; the rotation is drawn from RotationChoices.
getSpiralPosition(attempt, maxAttempts, nv, width, height, packingConfig) ==
  LET e == EighthTurns(attempt, maxAttempts, packingConfig)
      radius == SpiralRadius(attempt, maxAttempts, nv, width, height, packingConfig)
  IN  Point(width \div 2 + Scaled(radius, CosE(e)), height \div 2 + Scaled(radius, SinE(e)))

\* --------------------------------------------------------------- measureText

\* ctx.measureText(word.text).width at `${fontSize}px Arial`: half an em per
\* character.
measureText(text, fontSize) == (Len(text) * fontSize) \div 2

\* ---------------------------------------------------------------- the sort

\* [...inputWords].sort((a, b) => b.value - a.value), a stable sort.  Words are
\* referred to by their index in inputWords.
InsertAscending(sorted, r, inputWords) ==
  LET before == Cardinality({i \in 1..Len(sorted) :
                               inputWords[sorted[i]].value <= inputWords[r].value})
  IN  SubSeq(sorted, 1, before) \o <<r>> \o SubSeq(sorted, before + 1, Len(sorted))

InsertByValue(sorted, r, inputWords) ==
  LET before == Cardinality({i \in 1..Len(sorted) :
                               inputWords[sorted[i]].value >= inputWords[r].value})
  IN  SubSeq(sorted, 1, before) \o <<r>> \o SubSeq(sorted, before + 1, Len(sorted))

RECURSIVE SortPrefix(_, _)
SortPrefix(inputWords, k) ==
  IF k = 0 THEN <<>> ELSE InsertByValue(SortPrefix(inputWords, k - 1), k, inputWords)

SortedWords(inputWords) == SortPrefix(inputWords, Len(inputWords))

\* ------------------------------------------------------- JavaScript numbers

\* A statistic is a finite number carried in tenths, or NaN, or Infinity.
Num(tenths) == [kind |-> "number", tenths |-> tenths]

NaN == [kind |-> "NaN", tenths |-> 0]

PlusInfinity == [kind |-> "Infinity", tenths |-> 0]

\* Math.round(x) for x = n / d with n >= 0 and d > 0: floor(x + 0.5).
RoundRatio(n, d) == (2 * n + d) \div (2 * d)

\* Math.round((n / d) * 10) / 10 for n >= 0 and d >= 0, the division being
\* JavaScript's: 0 / 0 is NaN and n / 0 is Infinity, and both survive
\* Math.round.
RoundedQuotient10(n, d) ==
  IF d = 0 THEN (IF n = 0 THEN NaN ELSE PlusInfinity) ELSE Num(RoundRatio(10 * n, d))

RECURSIVE SumOver(_, _)
SumOver(f, S) ==
  IF S = {} THEN 0
  ELSE LET k == CHOOSE k \in S : TRUE IN f[k] + SumOver(f, S \ {k})

\* ------------------------------------------------------ calculateLayoutStats

\* |(points[0].x - points[2].x) * (points[0].y - points[2].y)| in square units.
BoxArea(box) ==
  Abs((box.points[1].x - box.points[3].x) * (box.points[1].y - box.points[3].y))

RECURSIVE CoveredArea(_, _)
CoveredArea(processed, k) ==
  IF k = 0 THEN 0
  ELSE CoveredArea(processed, k - 1)
         + (IF "boundingBox" \in DOMAIN processed[k]
            THEN BoxArea(processed[k].boundingBox) ELSE 0)

\* Math.round((coveredArea / totalArea) * 1000) / 10, in tenths of a percent.
\* totalArea is a multiple of 1000 square units for the modelled containers.
Coverage(coveredArea, totalArea) ==
  IF totalArea = 0
  THEN (IF coveredArea = 0 THEN NaN ELSE PlusInfinity)
  ELSE Num(RoundRatio(coveredArea, totalArea \div 1000))

calculateLayoutStatsTotalOfPlaced(processed, originalWordCount, attemptsMap, w, h) ==
  [placed |-> Cardinality({i \in 1..Len(processed) :
                             "boundingBox" \in DOMAIN processed[i]}),
   total |-> Len(processed),
   avgAttempts |-> RoundedQuotient10(SumOver(attemptsMap, DOMAIN attemptsMap),
                                     originalWordCount),
   coverage |-> Coverage(CoveredArea(processed, Len(processed)), w * h)]

calculateLayoutStats(processed, originalWordCount, attemptsMap, w, h) ==
  [placed |-> Cardinality({i \in 1..Len(processed) :
                             "boundingBox" \in DOMAIN processed[i]}),
   total |-> originalWordCount,
   avgAttempts |-> RoundedQuotient10(SumOver(attemptsMap, DOMAIN attemptsMap),
                                     originalWordCount),
   coverage |-> Coverage(CoveredArea(processed, Len(processed)), w * h)]

\* -------------------------------------------------------------------- state

VARIABLES
  words,              \* prop: the input word list, records [text, value, color]
  provided,           \* props width and height: each <<>> (undefined) or <<units>>
  width,              \* providedWidth ?? dimensions.width, in units
  height,             \* providedHeight ?? dimensions.height, in units
  fontConfig,         \* prop
  packingConfig,      \* prop
  rotationMode,       \* prop: "any" or "orthogonal"
  scaleType,          \* prop: "linear" or "logarithmic"
  pc,                 \* "render": the layout effect is pending; "forEach": inside
                      \* processWords; "done": the effect has set the state
  sortedWords,        \* processWords: the sorted copy, as indices into words
  wordIndex,          \* processWords: position of forEach in sortedWords
  attempts,           \* processWords: attempts of the current word
  placed,             \* processWords: the loop flag of the current word
  bestPosition,       \* processWords: <<>> (null) or <<[x, y, rotation]>>
  bestDistance,       \* processWords: Infinity or a distance in units
  bestBox,            \* processWords: <<>> (null) or <<box>>
  placedWords,        \* processWords: the result under construction
  dimensions,         \* component state: the measured [width, height] in units
  processedWords,     \* component state
  placementAttempts,  \* component state: text -> attempts
  stats,              \* component state
  consumed,           \* history: attempts consumed by each finished word
  accepted,           \* history: positions in sortedWords with a valid candidate
  nearest,            \* history: per position in sortedWords, the least distance
                      \* of its valid candidates (Infinity: none yet)
  lastValid,          \* history: !hasOverlap && inBounds at the last attempt of
                      \* the current word (FALSE before its first attempt)
  layoutMode,         \* history: the rotationMode of the render whose effect
                      \* called processWords last
  log,                \* history: <<>>, or <<[run, draws, reference]>> where the
                      \* rotations drawn by the running layout are recorded and
                      \* one finished run is kept for comparison
  probe               \* a pure function's arguments and result, for the
                      \* specifications that apply one function to drawn inputs

props == <<words, provided, width, height, fontConfig, packingConfig, rotationMode, scaleType>>

locals == <<sortedWords, wordIndex, attempts, placed, bestPosition, bestDistance,
            bestBox, placedWords>>

componentState == <<dimensions, processedWords, placementAttempts, stats>>

history == <<consumed, accepted, nearest, lastValid, layoutMode, log>>

vars == <<props, pc, locals, componentState, history, probe>>

\* bestDistance = Infinity
Infinity == 0 - 1

\* ------------------------------------------------------------- processWords

\* The input words of the model: a short and a long text, values of every
\* sign, equal values under different texts and equal texts under different
\* values.
WordInputs ==
  {[text |-> "a", value |-> 0 - 1, color |-> "#c00"],
   [text |-> "a", value |-> 0, color |-> "undefined"],
   [text |-> "a", value |-> 1, color |-> "undefined"],
   [text |-> "bbbbbb", value |-> 1, color |-> "#00c"],
   [text |-> "bbbbbb", value |-> 2, color |-> "undefined"]}

WordLists == UNION {[1..n -> WordInputs] : n \in 0..MaxWords}

Containers == {[width |-> Px(MIN_DIMENSION), height |-> Px(MIN_DIMENSION)],
               [width |-> Px(140), height |-> Px(MIN_DIMENSION)]}

\* Eight attempts per word on a spiral of density 6: a quarter turn back per
\* attempt at factor 1.
PackingConfigs ==
  {[DEFAULT_PACKING_CONFIG EXCEPT !.strategy = st, !.maxAttempts = 8, !.spiralDensity = 6] :
     st \in {"uniform", "adaptive"}}

\* packingConfig.maxAttempts || 500
MaxAttemptsOf(pcfg) == IF pcfg.maxAttempts # 0 THEN pcfg.maxAttempts ELSE 500

\* Math.max(...values) and Math.min(...values); of no value they are
\* -Infinity and Infinity, which the loop over no word never reads.
MaxValueOf(ws) == SetMax({ws[i].value : i \in DOMAIN ws})

MinValueOf(ws) == SetMin({ws[i].value : i \in DOMAIN ws})

\* The word forEach is at, and what the loop body computes for it before the
\* attempts start.
CurRef == sortedWords[wordIndex]

CurWord == words[CurRef]

NormalizedOf(word) ==
  normalizeValue(word.value, MinValueOf(words), MaxValueOf(words), scaleType)

FontSizeOf(word) ==
  calculateFontSize([width |-> width, height |-> height], Len(sortedWords), fontConfig,
                    NormalizedOf(word))

\* marginPercent = 0.02 * factor; margin = min(width, height) * marginPercent
Margin(w, h, pcfg) == (Min2(w, h) * 2 * pcfg.factor10) \div 1000

InBoundsXOnly(box, w, h, margin) ==
  \A i \in DOMAIN box.points :
    box.points[i].x >= margin /\ box.points[i].x <= w - margin

InBounds(box, w, h, margin) ==
  \A i \in DOMAIN box.points :
    /\ box.points[i].x >= margin
    /\ box.points[i].x <= w - margin
    /\ box.points[i].y >= margin
    /\ box.points[i].y <= h - margin

HasOverlapSkipFirst(newWordBox, placedSoFar) ==
  \E i \in 2..Len(placedSoFar) :
    checkBoundingBoxesIntersect(newWordBox, placedSoFar[i].boundingBox)

HasOverlap(newWordBox, placedSoFar) ==
  \E i \in 1..Len(placedSoFar) :
    checkBoundingBoxesIntersect(newWordBox, placedSoFar[i].boundingBox)

CloserThanBestAlways(distance, best) == TRUE

CloserThanBestFromZero(distance, best) == best # Infinity /\ distance < best

\* distance < bestDistance, bestDistance starting at Infinity
CloserThanBest(distance, best) == best = Infinity \/ distance < best

GoodEnoughCloseOnly(distance, w, att, maxAtt) == distance < w \div 10

\* distance < width * 0.1 || attempts > maxAttempts * 0.8
GoodEnough(distance, w, att, maxAtt) == distance < w \div 10 \/ 10 * att > 8 * maxAtt

\* The component before its layout effect has run: the locals of processWords
\* at their initial values and the state as useState initialises it.
NoLayoutYet ==
  /\ sortedWords = <<>>
  /\ wordIndex = 1
  /\ attempts = 0
  /\ placed = FALSE
  /\ bestPosition = <<>>
  /\ bestDistance = Infinity
  /\ bestBox = <<>>
  /\ placedWords = <<>>
  /\ processedWords = <<>>
  /\ placementAttempts = <<>>
  /\ stats = [placed |-> 0, total |-> 0, avgAttempts |-> Num(0), coverage |-> Num(0)]
  /\ consumed = <<>>
  /\ accepted = {}
  /\ nearest = <<>>
  /\ lastValid = FALSE
  /\ layoutMode = rotationMode

\* No width and no height prop.
NotProvided == [width |-> <<>>, height |-> <<>>]

\* providedWidth ?? dimensions.width
Effective(prop, measured) == IF prop = <<>> THEN measured ELSE prop[1]

\* A render without width and height props whose measured dimensions are c.
Measured(c) ==
  /\ provided = NotProvided
  /\ dimensions = c
  /\ width = c.width
  /\ height = c.height

\* The layouts of the model: a render with drawn props is pending.
LayoutsOf(wordLists, containers, fontConfigs) ==
  /\ words \in wordLists
  /\ \E c \in containers : Measured(c)
  /\ fontConfig \in fontConfigs
  /\ packingConfig \in PackingConfigs
  /\ QuarterTurnSpiral(MaxAttemptsOf(packingConfig), packingConfig)
  /\ rotationMode \in {"any", "orthogonal"}
  /\ scaleType \in {"linear", "logarithmic"}
  /\ pc = "render"
  /\ NoLayoutYet
  /\ probe = <<>>

Init ==
  /\ LayoutsOf(WordLists, Containers, {DEFAULT_FONT_CONFIG})
  /\ log = <<>>

\* The record of the running layout starts afresh.
LogStart(l) == IF l = <<>> THEN l ELSE <<[l[1] EXCEPT !.run = @ + 1, !.draws = <<>>]>>

\* Math.random has produced this rotation.
LogDraw(l, rotation) ==
  IF l = <<>> THEN l ELSE <<[l[1] EXCEPT !.draws = Append(@, rotation)]>>

\* A finished run may be kept as the reference, once; after that the runs on
\* other inputs are counted.
LogFinish(l, inputs, result) ==
  IF l = <<>> THEN {l}
  ELSE IF l[1].reference # <<>>
       THEN {<<[l[1] EXCEPT !.others =
                  IF inputs # l[1].reference[1].inputs THEN @ + 1 ELSE @]>>}
       ELSE {l, <<[l[1] EXCEPT !.reference = <<[run |-> l[1].run, inputs |-> inputs,
                                                 draws |-> l[1].draws,
                                                 result |-> result]>>]>>}

\* The arguments of processWords.
Inputs == <<words, width, height, fontConfig, packingConfig, rotationMode, scaleType>>

\* The layout effect runs (width && height) and calls processWords, which
\* sorts a copy of the input and enters forEach.  The canvas 2d context is
\* taken to exist (without one processWords returns [] at once).
StartLayoutSharedPlaced ==
  /\ pc = "render"
  /\ width # 0 /\ height # 0
  /\ pc' = "forEach"
  /\ sortedWords' = SortedWords(words)
  /\ wordIndex' = 1
  /\ attempts' = 0
  /\ placed' = FALSE
  /\ bestPosition' = <<>>
  /\ bestDistance' = Infinity
  /\ bestBox' = <<>>
  /\ placedWords' = placedWords
  /\ consumed' = <<>>
  /\ accepted' = {}
  /\ nearest' = [i \in 1..Len(words) |-> Infinity]
  /\ lastValid' = FALSE
  /\ layoutMode' = rotationMode
  /\ log' = LogStart(log)
  /\ UNCHANGED <<props, componentState, probe>>

StartLayoutSortInPlace ==
  /\ pc = "render"
  /\ width # 0 /\ height # 0
  /\ pc' = "forEach"
  /\ words' = [i \in 1..Len(words) |-> words[SortedWords(words)[i]]]
  /\ sortedWords' = [i \in 1..Len(words) |-> i]
  /\ wordIndex' = 1
  /\ attempts' = 0
  /\ placed' = FALSE
  /\ bestPosition' = <<>>
  /\ bestDistance' = Infinity
  /\ bestBox' = <<>>
  /\ placedWords' = <<>>
  /\ consumed' = <<>>
  /\ accepted' = {}
  /\ nearest' = [i \in 1..Len(words) |-> Infinity]
  /\ lastValid' = FALSE
  /\ layoutMode' = rotationMode
  /\ log' = LogStart(log)
  /\ UNCHANGED <<provided, width, height, fontConfig, packingConfig, rotationMode,
                 scaleType, componentState, probe>>

StartLayout ==
  /\ pc = "render"
  /\ width # 0 /\ height # 0
  /\ pc' = "forEach"
  /\ sortedWords' = SortedWords(words)
  /\ wordIndex' = 1
  /\ attempts' = 0
  /\ placed' = FALSE
  /\ bestPosition' = <<>>
  /\ bestDistance' = Infinity
  /\ bestBox' = <<>>
  /\ placedWords' = <<>>
  /\ consumed' = <<>>
  /\ accepted' = {}
  /\ nearest' = [i \in 1..Len(words) |-> Infinity]
  /\ lastValid' = FALSE
  /\ layoutMode' = rotationMode
  /\ log' = LogStart(log)
  /\ UNCHANGED <<props, componentState, probe>>

\* The while loop without attempts++.
AttemptNoIncrement ==
  /\ pc = "forEach"
  /\ wordIndex <= Len(sortedWords)
  /\ ~placed /\ attempts < MaxAttemptsOf(packingConfig)
  /\ \E rotation \in RotationChoices(attempts, MaxAttemptsOf(packingConfig),
                                     packingConfig, rotationMode) :
       LET maxAttempts == MaxAttemptsOf(packingConfig)
           normalizedValue == NormalizedOf(CurWord)
           fontSize == FontSizeOf(CurWord)
           wordWidth == measureText(CurWord.text, fontSize)
           wordHeight == fontSize
           xy == getSpiralPosition(attempts, maxAttempts, normalizedValue, width, height,
                                   packingConfig)
           position == [x |-> xy.x, y |-> xy.y, rotation |-> rotation]
           spacing == getWordSpacing(wordWidth, wordHeight, packingConfig, normalizedValue)
           newWordBox == getRotatedBoundingBox(position.x, position.y, wordWidth,
                                               wordHeight, position.rotation, spacing)
           hasOverlap == HasOverlap(newWordBox, placedWords)
           inBounds == InBounds(newWordBox, width, height, Margin(width, height, packingConfig))
           distance == Sqrt((position.x - width \div 2) * (position.x - width \div 2)
                            + (position.y - height \div 2) * (position.y - height \div 2))
       IN  /\ IF ~hasOverlap /\ inBounds
              THEN /\ IF CloserThanBest(distance, bestDistance)
                      THEN /\ bestDistance' = distance
                           /\ bestPosition' = <<position>>
                           /\ bestBox' = <<newWordBox>>
                      ELSE UNCHANGED <<bestDistance, bestPosition, bestBox>>
                   /\ placed' = GoodEnough(distance, width, attempts, maxAttempts)
                   /\ accepted' = accepted \cup {wordIndex}
                   /\ nearest' = [nearest EXCEPT ![wordIndex] =
                                    IF @ = Infinity THEN distance ELSE Min2(@, distance)]
              ELSE UNCHANGED <<bestDistance, bestPosition, bestBox, placed, accepted, nearest>>
           /\ lastValid' = (~hasOverlap /\ inBounds)
           /\ attempts' = attempts
           /\ log' = LogDraw(log, rotation)
  /\ UNCHANGED <<props, pc, sortedWords, wordIndex, placedWords, componentState, consumed,
                 layoutMode, probe>>

\* One iteration of the while loop of the current word.
Attempt ==
  /\ pc = "forEach"
  /\ wordIndex <= Len(sortedWords)
  /\ ~placed /\ attempts < MaxAttemptsOf(packingConfig)
  /\ \E rotation \in RotationChoices(attempts, MaxAttemptsOf(packingConfig),
                                     packingConfig, rotationMode) :
       LET maxAttempts == MaxAttemptsOf(packingConfig)
           normalizedValue == NormalizedOf(CurWord)
           fontSize == FontSizeOf(CurWord)
           wordWidth == measureText(CurWord.text, fontSize)
           wordHeight == fontSize
           xy == getSpiralPosition(attempts, maxAttempts, normalizedValue, width, height,
                                   packingConfig)
           position == [x |-> xy.x, y |-> xy.y, rotation |-> rotation]
           spacing == getWordSpacing(wordWidth, wordHeight, packingConfig, normalizedValue)
           newWordBox == getRotatedBoundingBox(position.x, position.y, wordWidth,
                                               wordHeight, position.rotation, spacing)
           hasOverlap == HasOverlap(newWordBox, placedWords)
           inBounds == InBounds(newWordBox, width, height, Margin(width, height, packingConfig))
           distance == Sqrt((position.x - width \div 2) * (position.x - width \div 2)
                            + (position.y - height \div 2) * (position.y - height \div 2))
       IN  /\ IF ~hasOverlap /\ inBounds
              THEN /\ IF CloserThanBest(distance, bestDistance)
                      THEN /\ bestDistance' = distance
                           /\ bestPosition' = <<position>>
                           /\ bestBox' = <<newWordBox>>
                      ELSE UNCHANGED <<bestDistance, bestPosition, bestBox>>
                   /\ placed' = GoodEnough(distance, width, attempts, maxAttempts)
                   /\ accepted' = accepted \cup {wordIndex}
                   /\ nearest' = [nearest EXCEPT ![wordIndex] =
                                    IF @ = Infinity THEN distance ELSE Min2(@, distance)]
              ELSE UNCHANGED <<bestDistance, bestPosition, bestBox, placed, accepted, nearest>>
           /\ lastValid' = (~hasOverlap /\ inBounds)
           /\ attempts' = attempts + 1
           /\ log' = LogDraw(log, rotation)
  /\ UNCHANGED <<props, pc, sortedWords, wordIndex, placedWords, componentState, consumed,
                 layoutMode, probe>>

\* The while loop of the current word has ended: the best candidate, if any,
\* is pushed, and forEach moves to the next word.
EndWord ==
  /\ pc = "forEach"
  /\ wordIndex <= Len(sortedWords)
  /\ placed \/ attempts >= MaxAttemptsOf(packingConfig)
  /\ placedWords' =
       IF bestPosition # <<>> /\ bestBox # <<>>
       THEN Append(placedWords,
                   [ref |-> CurRef, text |-> CurWord.text, value |-> CurWord.value,
                    color |-> CurWord.color,
                    x |-> bestPosition[1].x, y |-> bestPosition[1].y,
                    rotation |-> bestPosition[1].rotation,
                    fontSize |-> FontSizeOf(CurWord),
                    width |-> measureText(CurWord.text, FontSizeOf(CurWord)),
                    height |-> FontSizeOf(CurWord),
                    boundingBox |-> bestBox[1]])
       ELSE placedWords
  /\ consumed' = Append(consumed, attempts)
  /\ wordIndex' = wordIndex + 1
  /\ attempts' = 0
  /\ placed' = FALSE
  /\ bestPosition' = <<>>
  /\ bestDistance' = Infinity
  /\ bestBox' = <<>>
  /\ lastValid' = FALSE
  /\ UNCHANGED <<props, pc, sortedWords, componentState, accepted, nearest, layoutMode, log,
                 probe>>

\* processWords returns; the effect builds the attempts map, sets the state
\* and computes the statistics.
FinishLayout ==
  /\ pc = "forEach"
  /\ wordIndex > Len(sortedWords)
  /\ LET attemptsMap == [t \in {words[i].text : i \in DOMAIN words} |-> 0]
     IN  /\ processedWords' = placedWords
         /\ placementAttempts' = attemptsMap
         /\ stats' = calculateLayoutStats(placedWords, Len(words), attemptsMap, width, height)
  /\ pc' = "done"
  /\ log' \in LogFinish(log, Inputs, placedWords)
  /\ UNCHANGED <<props, locals, dimensions, consumed, accepted, nearest, lastValid,
                 layoutMode, probe>>

Next == StartLayout \/ Attempt \/ EndWord \/ FinishLayout

Spec == Init /\ [][Next]_vars

\* ------------------------------------------------ layouts in a wide container

\* A container more than twice as wide as it is high.
WideContainers == {[width |-> Px(240), height |-> Px(MIN_DIMENSION)]}

FontConfigs == {DEFAULT_FONT_CONFIG, APP_FONT_CONFIG}

InitWide ==
  /\ LayoutsOf(WordLists, WideContainers, FontConfigs)
  /\ packingConfig.strategy = "adaptive"
  /\ log = <<>>

SpecWide == InitWide /\ [][Next]_vars

\* ------------------------------------------------------- repeated layouts

\* Most layout runs of one component.
MaxRuns == 3

\* Word lists of one word, of two words that are both placed, and of two
\* words that the sort reorders.
RerunWordLists ==
  {<<[text |-> "a", value |-> 1, color |-> "undefined"]>>,
   <<[text |-> "a", value |-> 1, color |-> "undefined"],
     [text |-> "a", value |-> 1, color |-> "undefined"]>>,
   <<[text |-> "a", value |-> 0, color |-> "undefined"],
     [text |-> "bbbbbb", value |-> 2, color |-> "undefined"]>>}

\* Nothing recorded yet.
EmptyLog == <<[run |-> 0, draws |-> <<>>, reference |-> <<>>, others |-> 0]>>

InitRerun ==
  /\ LayoutsOf(RerunWordLists,
               {[width |-> Px(MIN_DIMENSION), height |-> Px(MIN_DIMENSION)]},
               {DEFAULT_FONT_CONFIG})
  /\ packingConfig.strategy = "adaptive"
  /\ rotationMode = "any"
  /\ log = EmptyLog

\* The parent renders the component with other words or another scale type
\* (or with an equal list in a new array): the dependencies of the layout
\* effect have changed and it will run again.
SetProps ==
  /\ pc = "done"
  /\ log # <<>> /\ log[1].run < MaxRuns
  /\ words' \in RerunWordLists
  /\ scaleType' \in {"linear", "logarithmic"}
  /\ pc' = "render"
  /\ UNCHANGED <<provided, width, height, fontConfig, packingConfig, rotationMode,
                 locals, componentState, history, probe>>

NextRerun == StartLayout \/ Attempt \/ EndWord \/ FinishLayout \/ SetProps

SpecRerun == InitRerun /\ [][NextRerun]_vars

\* ------------------------------------------------------ resize notifications

NewDimensionUnclamped(side) == side

\* Math.max(rect.width, MIN_DIMENSION)
NewDimension(side) == Max2(side, Px(MIN_DIMENSION))

\* Sides of the container's bounding rectangle: collapsed, below the floor,
\* less than a pixel above it, and above it.
RectSides == {0, Px(50), Px(MIN_DIMENSION) + 200, Px(125)}

\* No size prop, a width prop only, and both props.
ProvidedProps ==
  {NotProvided,
   [width |-> <<Px(60)>>, height |-> <<>>],
   [width |-> <<Px(60)>>, height |-> <<Px(60)>>]}

\* The component is mounted: the measured dimensions are the initial state.
InitResize ==
  /\ words \in RerunWordLists
  /\ provided \in ProvidedProps
  /\ dimensions = [width |-> Px(MIN_DIMENSION), height |-> Px(MIN_DIMENSION)]
  /\ width = Effective(provided.width, dimensions.width)
  /\ height = Effective(provided.height, dimensions.height)
  /\ fontConfig = DEFAULT_FONT_CONFIG
  /\ packingConfig \in PackingConfigs
  /\ packingConfig.strategy = "adaptive"
  /\ rotationMode = "any"
  /\ scaleType = "linear"
  /\ pc = "render"
  /\ NoLayoutYet
  /\ probe = <<>>
  /\ log = <<>>

\* updateDimensions, called at mount and from the ResizeObserver through
\* requestAnimationFrame, with the rectangle it measures.  The state is set
\* only when a side differs from it by more than a pixel; the component then
\* renders again and, where width or height has changed, the layout effect is
\* pending again.  The update takes effect once the effects of the last
\* render have run.
UpdateDimensions ==
  /\ pc = "done"
  /\ \E rectWidth \in RectSides, rectHeight \in RectSides :
       LET newWidth == NewDimension(rectWidth)
           newHeight == NewDimension(rectHeight)
       IN  /\ \/ Abs(newWidth - dimensions.width) > Px(1)
              \/ Abs(newHeight - dimensions.height) > Px(1)
           /\ dimensions' = [width |-> newWidth, height |-> newHeight]
           /\ width' = Effective(provided.width, newWidth)
           /\ height' = Effective(provided.height, newHeight)
  /\ pc' = IF width' # width \/ height' # height THEN "render" ELSE pc
  /\ UNCHANGED <<words, provided, fontConfig, packingConfig, rotationMode, scaleType,
                 locals, processedWords, placementAttempts, stats, history, probe>>

NextResize == StartLayout \/ Attempt \/ EndWord \/ FinishLayout \/ UpdateDimensions

SpecResize == InitResize /\ [][NextResize]_vars

\* ------------------------------------------- normalizeValue on drawn inputs

\* Largest absolute value drawn for value, minValue and maxValue.
MaxAbsValue == 3

\* The layout is not running: the layout variables at their initial values.
LayoutIdle ==
  /\ words = <<>>
  /\ Measured([width |-> Px(MIN_DIMENSION), height |-> Px(MIN_DIMENSION)])
  /\ fontConfig = DEFAULT_FONT_CONFIG
  /\ packingConfig = DEFAULT_PACKING_CONFIG
  /\ rotationMode = "any"
  /\ scaleType = "linear"
  /\ pc = "pure"
  /\ NoLayoutYet
  /\ log = <<>>

\* processWords calls normalizeValue with the least and the greatest value of
\* the list the word is in: minValue <= value <= maxValue.
InitNormalize ==
  /\ LayoutIdle
  /\ \E v \in (0 - MaxAbsValue)..MaxAbsValue, lo \in (0 - MaxAbsValue)..MaxAbsValue,
        hi \in (0 - MaxAbsValue)..MaxAbsValue, st \in {"linear", "logarithmic"} :
       /\ lo <= v /\ v <= hi
       /\ probe = [fn |-> "normalizeValue", value |-> v, minValue |-> lo, maxValue |-> hi,
                   scaleType |-> st, result |-> <<>>]

ApplyNormalize ==
  /\ pc = "pure"
  /\ probe.fn = "normalizeValue"
  /\ probe.result = <<>>
  /\ probe' = [probe EXCEPT !.result =
                 <<normalizeValue(probe.value, probe.minValue, probe.maxValue,
                                  probe.scaleType)>>]
  /\ UNCHANGED <<props, pc, locals, componentState, history>>

NextNormalize == ApplyNormalize

SpecNormalize == InitNormalize /\ [][NextNormalize]_vars

\* ---------------------------------------- calculateFontSize on drawn inputs

\* Largest word count drawn.
MaxWordCount == 3

\* Containers from a few pixels to the widest layout container, of every
\* orientation.
FontSizeContainers ==
  {[width |-> Px(w), height |-> Px(h)] : w \in {5, 10, MIN_DIMENSION, 240},
                                         h \in {5, 10, MIN_DIMENSION, 240}}

\* Both default configurations, and configurations that scale without the
\* word count, above the word-count threshold, far up, and below zero.
FontSizeConfigs ==
  {DEFAULT_FONT_CONFIG, APP_FONT_CONFIG,
   [DEFAULT_FONT_CONFIG EXCEPT !.scaleFactor10 = 0, !.wordCountScaling.enabled = FALSE],
   [DEFAULT_FONT_CONFIG EXCEPT !.wordCountScaling.threshold = 2],
   [DEFAULT_FONT_CONFIG EXCEPT !.min = 50, !.max = 200, !.scaleFactor10 = 20],
   [DEFAULT_FONT_CONFIG EXCEPT !.scaleFactor10 = 0 - 10]}

\* Results of normalizeValue: 0, 1, 1/2, 1/3 and a logarithmic ratio.
NormalizedValues ==
  {Ratio(0, 1), Ratio(1, 1), Ratio(1, 2), Ratio(1, 3),
   Ratio(LogClamped(1) - LogClamped(0), LogClamped(2) - LogClamped(0))}

InitFontSize ==
  /\ LayoutIdle
  /\ \E c \in FontSizeContainers, n \in 1..MaxWordCount, fc \in FontSizeConfigs,
        nv \in NormalizedValues :
       probe = [fn |-> "calculateFontSize", containerSize |-> c, wordCount |-> n,
                fontConfig |-> fc, normalizedValue |-> nv, result |-> <<>>]

ApplyFontSize ==
  /\ pc = "pure"
  /\ probe.fn = "calculateFontSize"
  /\ probe.result = <<>>
  /\ probe' = [probe EXCEPT !.result =
                 <<calculateFontSize(probe.containerSize, probe.wordCount,
                                     probe.fontConfig, probe.normalizedValue)>>]
  /\ UNCHANGED <<props, pc, locals, componentState, history>>

NextFontSize == ApplyFontSize

SpecFontSize == InitFontSize /\ [][NextFontSize]_vars

\* ------------------------------------- getRotatedBoundingBox on drawn inputs

\* Largest half side of a drawn rectangle, in pixels.
MaxHalfSide == 3

Rotations == {Rot0, Rot90, RotM90, Rot45Lo, Rot45Hi, RotM45Lo, RotM45Hi}

InitBox ==
  /\ LayoutIdle
  /\ \E cx \in {Px(50), Px(120)}, cy \in {Px(50)}, hw \in 1..MaxHalfSide,
        hh \in 1..MaxHalfSide, r \in Rotations, sp \in {0, Px(2)} :
       probe = [fn |-> "getRotatedBoundingBox", centerX |-> cx, centerY |-> cy,
                width |-> Px(2 * hw), height |-> Px(2 * hh), rotation |-> r,
                spacing |-> sp, result |-> <<>>]

ApplyBox ==
  /\ pc = "pure"
  /\ probe.fn = "getRotatedBoundingBox"
  /\ probe.result = <<>>
  /\ probe' = [probe EXCEPT !.result =
                 <<getRotatedBoundingBox(probe.centerX, probe.centerY, probe.width,
                                         probe.height, probe.rotation, probe.spacing)>>]
  /\ UNCHANGED <<props, pc, locals, componentState, history>>

NextBox == ApplyBox

SpecBox == InitBox /\ [][NextBox]_vars

\* ------------------------------------------------- App: the packingConfig memo

\* A JavaScript value read from a configuration variable: undefined, null, a
\* number in tenths, NaN, a string or a boolean.
JsValue(type, num10, str, bool) == [type |-> type, num10 |-> num10, str |-> str, bool |-> bool]

JsUndefined == JsValue("undefined", 0, "", FALSE)

JsNull == JsValue("null", 0, "", FALSE)

JsNum(num10) == JsValue("number", num10, "", FALSE)

JsNaN == JsValue("NaN", 0, "", FALSE)

JsStr(str) == JsValue("string", 0, str, FALSE)

JsBool(bool) == JsValue("boolean", 0, "", bool)

\* Number(v): undefined is NaN, null is 0, booleans are 0 and 1, the empty
\* string is 0, a numeric string is its number and any other string is NaN.
JsNumber(v) ==
  CASE v.type = "undefined" -> JsNaN
    [] v.type = "null" -> JsNum(0)
    [] v.type = "boolean" -> JsNum(IF v.bool THEN 10 ELSE 0)
    [] v.type = "string" ->
         (CASE v.str = "" -> JsNum(0)
            [] v.str = "1.5" -> JsNum(15)
            [] v.str = "-2" -> JsNum(0 - 20)
            [] OTHER -> JsNaN)
    [] OTHER -> v

\* isNaN(n) for a number n
JsIsNaN(n) == n.type = "NaN"

\* DEFAULT_PACKING_CONFIG of App.tsx, factor and minSpacing in tenths.
APP_PACKING_CONFIG ==
  [factor10 |-> 8, strategy |-> "adaptive", minSpacing10 |-> 20, bruteForce |-> TRUE]

\* !isNaN(Number(v)) && v !== null ? Number(v) : fallback, in tenths
AppNumberOrDefault(v, fallback) ==
  IF ~JsIsNaN(JsNumber(v)) /\ v.type # "null" THEN JsNumber(v).num10 ELSE fallback

\* The packingConfig App passes to WordCloud.
AppPackingConfig(factorValue, strategyValue, minSpacingValue, bruteForceValue) ==
  [factor10 |-> AppNumberOrDefault(factorValue, APP_PACKING_CONFIG.factor10),
   strategy |-> IF strategyValue = JsStr("uniform") \/ strategyValue = JsStr("adaptive")
                THEN strategyValue.str ELSE APP_PACKING_CONFIG.strategy,
   minSpacing10 |-> AppNumberOrDefault(minSpacingValue, APP_PACKING_CONFIG.minSpacing10),
   bruteForce |-> IF bruteForceValue.type = "boolean"
                  THEN bruteForceValue.bool ELSE APP_PACKING_CONFIG.bruteForce]

\* What the factor variable can hold: nothing, null, numbers of every sign,
\* NaN, and strings that are and are not numbers.
FactorValues ==
  {JsUndefined, JsNull, JsNaN, JsNum(0 - 10), JsNum(0), JsNum(8), JsNum(15),
   JsStr(""), JsStr("abc"), JsStr("1.5"), JsStr("-2")}

InitApp ==
  /\ LayoutIdle
  /\ \E f \in FactorValues,
        s \in {JsUndefined, JsStr("uniform"), JsStr("adaptive"), JsStr("abc")},
        m \in {JsUndefined, JsNum(0), JsNum(50)},
        b \in {JsUndefined, JsBool(TRUE), JsBool(FALSE)} :
       probe = [fn |-> "App.packingConfig", factorValue |-> f, strategyValue |-> s,
                minSpacingValue |-> m, bruteForceValue |-> b, result |-> <<>>]

ApplyApp ==
  /\ pc = "pure"
  /\ probe.fn = "App.packingConfig"
  /\ probe.result = <<>>
  /\ probe' = [probe EXCEPT !.result =
                 <<AppPackingConfig(probe.factorValue, probe.strategyValue,
                                    probe.minSpacingValue, probe.bruteForceValue)>>]
  /\ UNCHANGED <<props, pc, locals, componentState, history>>

NextApp == ApplyApp

SpecApp == InitApp /\ [][NextApp]_vars

\* ------------------------------------------- layouts with sixteen attempts

\* A render is pending whose packingConfig is drawn from packingConfigs.
LayoutsPacked(wordLists, containers, fontConfigs, packingConfigs) ==
  /\ words \in wordLists
  /\ \E c \in containers : Measured(c)
  /\ fontConfig \in fontConfigs
  /\ packingConfig \in packingConfigs
  /\ EighthTurnSpiral(MaxAttemptsOf(packingConfig), packingConfig)
  /\ rotationMode \in {"any", "orthogonal"}
  /\ scaleType \in {"linear", "logarithmic"}
  /\ pc = "render"
  /\ NoLayoutYet
  /\ probe = <<>>

\* Sixteen attempts per word on a spiral of density 4, a quarter turn back per
\* attempt at factor 1: the attempts 13, 14 and 15 come after 80% of
\* maxAttempts.
BudgetPackingConfigs ==
  {[DEFAULT_PACKING_CONFIG EXCEPT !.strategy = "adaptive", !.maxAttempts = 16,
                                  !.spiralDensity = 4]}

InitBudget ==
  /\ LayoutsPacked(WordLists, {[width |-> Px(MIN_DIMENSION), height |-> Px(MIN_DIMENSION)]},
                   {DEFAULT_FONT_CONFIG}, BudgetPackingConfigs)
  /\ log = <<>>

SpecBudget == InitBudget /\ [][Next]_vars

\* ---------------------------------------- getSpiralPosition on drawn inputs

\* The radius of the earlier variant of getSpiralPosition:
\* initialRadius + t * min(width, height) * 0.45 * spiralGrowth with
\* initialRadius = min(width, height) * 0.1 and
\* spiralGrowth = 1 + t * (2 - normalizedValue), carried in thousandths.
EarlierSpiralRadius(attempt, maxAttempts, nv, w, h) ==
  LET spiralGrowth1000 == 1000 + (attempt * (2000 - (1000 * nv.n) \div nv.d)) \div maxAttempts
      containerSize == Min2(w, h)
      initialRadius == containerSize \div 10
  IN  initialRadius
        + (((attempt * containerSize * 45) \div (maxAttempts * 100)) * spiralGrowth1000)
            \div 1000

\* Largest maxAttempts drawn.
MaxSpiralAttempts == 8

\* packingConfig.factor, in tenths, from 0.1 to 10.
SpiralFactors == {1, 5, 8, 10, 20, 90, 100}

\* The radius at every attempt of one word, as the sequence indexed by
\* attempt + 1.
RadiusCurve(maxAttempts, nv, w, h, pcfg) ==
  [a \in 1..maxAttempts |-> SpiralRadius(a - 1, maxAttempts, nv, w, h, pcfg)]

EarlierRadiusCurve(maxAttempts, nv, w, h) ==
  [a \in 1..maxAttempts |-> EarlierSpiralRadius(a - 1, maxAttempts, nv, w, h)]

\* Two words of one layout, the second of no less a normalized value.
InitSpiral ==
  /\ LayoutIdle
  /\ \E m \in 1..MaxSpiralAttempts, f \in SpiralFactors, c \in Containers \cup WideContainers,
        nv \in NormalizedValues, higher \in NormalizedValues :
       /\ nv.n * higher.d <= higher.n * nv.d
       /\ probe = [fn |-> "getSpiralPosition", maxAttempts |-> m,
                   normalizedValue |-> nv, higher |-> higher,
                   width |-> c.width, height |-> c.height,
                   packingConfig |-> [DEFAULT_PACKING_CONFIG EXCEPT !.factor10 = f],
                   result |-> <<>>]

ApplySpiral ==
  /\ pc = "pure"
  /\ probe.fn = "getSpiralPosition"
  /\ probe.result = <<>>
  /\ probe' = [probe EXCEPT !.result =
                 <<[radius |-> RadiusCurve(probe.maxAttempts, probe.normalizedValue,
                                           probe.width, probe.height, probe.packingConfig),
                    radiusHigher |-> RadiusCurve(probe.maxAttempts, probe.higher,
                                                 probe.width, probe.height,
                                                 probe.packingConfig),
                    earlier |-> EarlierRadiusCurve(probe.maxAttempts, probe.normalizedValue,
                                                   probe.width, probe.height),
                    earlierHigher |-> EarlierRadiusCurve(probe.maxAttempts, probe.higher,
                                                         probe.width, probe.height)]>>]
  /\ UNCHANGED <<props, pc, locals, componentState, history>>

NextSpiral == ApplySpiral

SpecSpiral == InitSpiral /\ [][NextSpiral]_vars

\* ------------------------------- rotation of getSpiralPosition on drawn inputs

\* Values of Math.random(), in hundredths: both ends of [0, 1), both sides of
\* 0.5 and the draws behind the jitter of -1.4 and +1.4 degrees.
RandomSamples == {0, 36, 50, 51, 64, 99}

RotationOfFiveBuckets(attempt, maxAttempts, pcfg, mode, choice, jitter) ==
  LET rotationAttempts == <<0, 4500, 9000, 0 - 4500>>
      rotationIndex == (5 * attempt) \div maxAttempts
  IN  (IF rotationIndex + 1 \in DOMAIN rotationAttempts
       THEN rotationAttempts[rotationIndex + 1] ELSE 0) + (jitter - 50) * 10

\* The rotation getSpiralPosition returns, in hundredths of a degree, when
\* Math.random() returns choice and then jitter (with bruteForce in mode "any"
\* there is one call, which returns jitter).
RotationOf(attempt, maxAttempts, pcfg, mode, choice, jitter) ==
  IF mode = "orthogonal"
  THEN (IF choice > 50 THEN 0 ELSE 0 - 9000) + (jitter - 50) * 2
  ELSE IF pcfg.bruteForce
       THEN LET rotationAttempts == <<0, 4500, 9000, 0 - 4500>>
                rotationIndex == (4 * attempt) \div maxAttempts
            IN  (IF rotationIndex + 1 \in DOMAIN rotationAttempts
                 THEN rotationAttempts[rotationIndex + 1] ELSE 0) + (jitter - 50) * 10
       ELSE IF choice > 50 THEN 0 + (jitter - 50) * 5 ELSE 9000 + (jitter - 50) * 5

InitRotation ==
  /\ LayoutIdle
  /\ \E m \in 1..MaxSpiralAttempts, mode \in {"any", "orthogonal"}, b \in BOOLEAN :
       \E a \in 0..(m - 1) :
         probe = [fn |-> "getSpiralPosition.rotation", attempt |-> a, maxAttempts |-> m,
                  packingConfig |-> [DEFAULT_PACKING_CONFIG EXCEPT !.bruteForce = b],
                  rotationMode |-> mode, result |-> <<>>]

\* Math.random() is called and the rotation computed; layout is what the
\* layouts of this model draw at this attempt.
ApplyRotation ==
  /\ pc = "pure"
  /\ probe.fn = "getSpiralPosition.rotation"
  /\ probe.result = <<>>
  /\ \E choice \in RandomSamples, jitter \in RandomSamples :
       probe' = [probe EXCEPT !.result =
                   <<[rotation |-> RotationOf(probe.attempt, probe.maxAttempts,
                                              probe.packingConfig, probe.rotationMode,
                                              choice, jitter),
                      layout |-> RotationChoices(probe.attempt, probe.maxAttempts,
                                                 probe.packingConfig,
                                                 probe.rotationMode)]>>]
  /\ UNCHANGED <<props, pc, locals, componentState, history>>

NextRotation == ApplyRotation

SpecRotation == InitRotation /\ [][NextRotation]_vars

\* ------------------------------- checkBoundingBoxesIntersect on drawn boxes

\* Farthest centre of the second box from the centre of the first, in steps
\* of 29 units along each axis.
MaxOffset == 6

\* Centre coordinates of the second box: the steps, and the steps moved by 12
\* units, where a corner of a small square at 43.6 degrees (41 units from its
\* centre) meets the side of an upright one.
Offsets == {29 * k + d : k \in 0..MaxOffset, d \in {0, 12}}

\* Widths and heights whose halves are multiples of 29 units, so that the
\* corners of a rotated rectangle are on the unit grid exactly.
InitIntersect ==
  /\ LayoutIdle
  /\ \E s1 \in {<<174, 174>>, <<174, 58>>}, r1 \in {Rot0, Rot45Lo, RotM45Hi},
        s2 \in {<<58, 58>>, <<174, 58>>}, r2 \in Rotations,
        cx \in Offsets, cy \in Offsets :
       probe = [fn |-> "checkBoundingBoxesIntersect",
                box1 |-> getRotatedBoundingBox(0, 0, s1[1], s1[2], r1, 0),
                box2 |-> getRotatedBoundingBox(cx, cy, s2[1], s2[2], r2, 0),
                result |-> <<>>]

ApplyIntersect ==
  /\ pc = "pure"
  /\ probe.fn = "checkBoundingBoxesIntersect"
  /\ probe.result = <<>>
  /\ probe' = [probe EXCEPT !.result =
                 <<[current |-> checkBoundingBoxesIntersect(probe.box1, probe.box2),
                    swapped |-> checkBoundingBoxesIntersect(probe.box2, probe.box1),
                    earlier |-> checkBoundingBoxesIntersectEarlier(probe.box1, probe.box2),
                    earlierSwapped |->
                      checkBoundingBoxesIntersectEarlier(probe.box2, probe.box1)]>>]
  /\ UNCHANGED <<props, pc, locals, componentState, history>>

NextIntersect == ApplyIntersect

SpecIntersect == InitIntersect /\ [][NextIntersect]_vars

\* ------------------------------------------- getWordSpacing on drawn inputs

\* Measured words from a thin letter to a long word at a large font size, in
\* pixels.
WordSizes == {<<2, 4>>, <<10, 20>>, <<60, 20>>, <<120, 40>>}

InitSpacing ==
  /\ LayoutIdle
  /\ \E size \in WordSizes, ms \in {0, 2, 5}, f \in SpiralFactors, nv \in NormalizedValues :
       probe = [fn |-> "getWordSpacing", width |-> Px(size[1]), height |-> Px(size[2]),
                packingConfig |-> [DEFAULT_PACKING_CONFIG EXCEPT !.minSpacing = ms,
                                                                 !.factor10 = f],
                normalizedValue |-> nv, result |-> <<>>]

\* The function is applied under both strategies.
ApplySpacing ==
  /\ pc = "pure"
  /\ probe.fn = "getWordSpacing"
  /\ probe.result = <<>>
  /\ probe' = [probe EXCEPT !.result =
                 <<[uniform |-> getWordSpacing(probe.width, probe.height,
                                               [probe.packingConfig EXCEPT
                                                  !.strategy = "uniform"],
                                               probe.normalizedValue),
                    adaptive |-> getWordSpacing(probe.width, probe.height,
                                                [probe.packingConfig EXCEPT
                                                   !.strategy = "adaptive"],
                                                probe.normalizedValue)]>>]
  /\ UNCHANGED <<props, pc, locals, componentState, history>>

NextSpacing == ApplySpacing

SpecSpacing == InitSpacing /\ [][NextSpacing]_vars

\* ------------------------------------------------- a change of rotationMode

InitMode ==
  /\ LayoutsOf(WordLists, {[width |-> Px(MIN_DIMENSION), height |-> Px(MIN_DIMENSION)]},
               {DEFAULT_FONT_CONFIG})
  /\ packingConfig.strategy = "adaptive"
  /\ log = <<>>

\* The parent renders the component with another rotationMode and the same
\* words, fontConfig, packingConfig and scaleType objects.  rotationMode is
\* not among the dependencies of the layout effect, which therefore does not
\* run again.
SetRotationMode ==
  /\ pc = "done"
  /\ rotationMode' \in {"any", "orthogonal"} \ {rotationMode}
  /\ UNCHANGED <<words, provided, width, height, fontConfig, packingConfig, scaleType, pc,
                 locals, componentState, history, probe>>

NextMode == StartLayout \/ Attempt \/ EndWord \/ FinishLayout \/ SetRotationMode

SpecMode == InitMode /\ [][NextMode]_vars

\* ------------------------------------------- layouts on a diagonal spiral

\* Eight attempts per word on spirals that advance by an odd number of
\* eighths of a turn per attempt (19 at factor 0.1 and density 10, 3 at
\* factor 0.5 and density 2, 3 at factor 1 and density 3), so that candidates
\* alternate between the axes and the diagonals, and the spiral of factor 2,
\* whose angle is always 0.
DiagonalPackingConfigs ==
  {[DEFAULT_PACKING_CONFIG EXCEPT !.factor10 = c[1], !.spiralDensity = c[2],
                                  !.strategy = "uniform", !.maxAttempts = 8] :
     c \in {<<1, 10>>, <<5, 2>>, <<10, 3>>, <<20, 12>>}}

InitDiagonal ==
  /\ LayoutsPacked(WordLists, {[width |-> Px(140), height |-> Px(MIN_DIMENSION)]},
                   {DEFAULT_FONT_CONFIG}, DiagonalPackingConfigs)
  /\ log = <<>>

SpecDiagonal == InitDiagonal /\ [][Next]_vars

\* ------------------------------------------------------------------- claims

NonAxisAligned(rotation) == rotation.c # 0 /\ rotation.s # 0

\* C1: at every point of processWords, no two distinct placed words have
\* intersecting bounding boxes, in either argument order of
\* checkBoundingBoxesIntersect.
C1_NoOverlap ==
  /\ \A i, j \in 1..Len(placedWords) :
       i # j => ~checkBoundingBoxesIntersect(placedWords[i].boundingBox,
                                             placedWords[j].boundingBox)
  /\ \A i, j \in 1..Len(processedWords) :
       i # j => ~checkBoundingBoxesIntersect(processedWords[i].boundingBox,
                                             processedWords[j].boundingBox)

\* C1 witness: two words are placed, one of them rotated off the axes, and the
\* second one had candidates rejected before it was placed.
C1_Witness ==
  /\ Len(placedWords) >= 2
  /\ \E i \in 1..Len(placedWords) : NonAxisAligned(placedWords[i].rotation)
  /\ Len(consumed) >= 2 /\ consumed[2] > 1

\* C2: every corner of every placed word's stored bounding box lies in
\* [margin, width - margin] x [margin, height - margin], margin being the one
\* processWords computes from min(width, height) and packingConfig.factor.
C2_InBounds ==
  \A i \in 1..Len(placedWords) :
    \A k \in DOMAIN placedWords[i].boundingBox.points :
      LET corner == placedWords[i].boundingBox.points[k]
          margin == Margin(width, height, packingConfig)
      IN  /\ margin <= corner.x /\ corner.x <= width - margin
          /\ margin <= corner.y /\ corner.y <= height - margin

\* C2 witness: the first word of the run had every candidate refused, which
\* with nothing placed yet can only be for the bounds, and a later word is
\* placed.
C2_Witness ==
  /\ pc = "done"
  /\ Len(placedWords) >= 1
  /\ 1 \notin accepted

\* The word at position i of sortedWords is in the result.
InResult(i) == \E k \in 1..Len(placedWords) : placedWords[k].ref = sortedWords[i]

\* C3: a word whose loop has ended is in the result if and only if one of its
\* attempts produced a candidate that overlaps no placed word and is in
\* bounds; a word without such a candidate used all maxAttempts attempts and
\* is absent.
C3_PlacedIffAccepted ==
  \A i \in 1..Len(consumed) :
    /\ InResult(i) <=> i \in accepted
    /\ i \notin accepted => consumed[i] = MaxAttemptsOf(packingConfig)

\* C3 witness: a finished layout with one word placed and another dropped.
C3_Witness ==
  /\ pc = "done"
  /\ \E i, j \in 1..Len(consumed) : InResult(i) /\ ~InResult(j)

\* C4: the result is a subsequence of the input sorted by descending value,
\* ties in input order: along the result values do not increase, equal values
\* keep their input order, and every entry is a distinct input word.
C4_SortedSubsequence ==
  /\ \A k \in 1..Len(placedWords) :
       /\ placedWords[k].ref \in 1..Len(words)
       /\ placedWords[k].text = words[placedWords[k].ref].text
       /\ placedWords[k].value = words[placedWords[k].ref].value
  /\ \A k, m \in 1..Len(placedWords) :
       k < m =>
         /\ placedWords[k].value >= placedWords[m].value
         /\ placedWords[k].value = placedWords[m].value
              => placedWords[k].ref < placedWords[m].ref

\* C4 witness: two placed words that the sort has put in the reverse of their
\* input order.
C4_Witness ==
  /\ Len(placedWords) >= 2
  /\ placedWords[1].ref > placedWords[2].ref

\* Input words absent from the result.
Dropped == {r \in 1..Len(words) : \A k \in 1..Len(processedWords) : processedWords[k].ref # r}

\* C5: after a layout, total is the number of input words, placed the number
\* of words in the result, placed <= total and placed + dropped = total.
C5_StatsCounts ==
  pc = "done" =>
    /\ stats.total = Len(words)
    /\ stats.placed = Len(processedWords)
    /\ stats.placed <= stats.total
    /\ stats.placed + Cardinality(Dropped) = stats.total

\* C5 witness: a finished layout with some words placed and some dropped.
C5_Witness ==
  /\ pc = "done"
  /\ stats.placed > 0
  /\ stats.placed < stats.total

\* C6: after a layout the attempts map holds maxAttempts for every dropped
\* word and the attempts consumed for every placed word.
C6_AttemptsRecorded ==
  pc = "done" =>
    \A i \in 1..Len(sortedWords) :
      LET text == words[sortedWords[i]].text
      IN  /\ text \in DOMAIN placementAttempts
          /\ InResult(i) => placementAttempts[text] = consumed[i]
          /\ ~InResult(i) => placementAttempts[text] = MaxAttemptsOf(packingConfig)

RECURSIVE SeqSum(_, _)
SeqSum(seq, k) == IF k = 0 THEN 0 ELSE seq[k] + SeqSum(seq, k - 1)

\* C7: the reported avgAttempts is the sum of the attempts every input word
\* consumed, divided by the number of words, rounded to one decimal.
C7_AverageAttempts ==
  (pc = "done" /\ Len(words) > 0) =>
    stats.avgAttempts = Num(RoundRatio(10 * SeqSum(consumed, Len(consumed)), Len(words)))

\* C8: an empty word list yields no placed word and the statistics placed = 0,
\* total = 0, avgAttempts = 0 and coverage = 0, none of them NaN or Infinity.
C8_EmptyList ==
  (pc = "done" /\ words = <<>>) =>
    /\ processedWords = <<>>
    /\ stats = [placed |-> 0, total |-> 0, avgAttempts |-> Num(0), coverage |-> Num(0)]

\* The result of the probed normalizeValue call lies strictly between 0 and 1.
StrictlyInside(r) == 0 < r.n /\ r.n < r.d

\* C9 as stated: in linear mode with minValue < maxValue of any sign, the
\* result is strictly between 0 and 1 for minValue < value < maxValue, 0 for
\* value = minValue and 1 for value = maxValue.
C9_LinearBoundsAnySign ==
  (probe.result # <<>> /\ probe.scaleType = "linear" /\ probe.minValue < probe.maxValue) =>
    LET r == probe.result[1]
    IN  /\ (probe.minValue < probe.value /\ probe.value < probe.maxValue) => StrictlyInside(r)
        /\ probe.value = probe.minValue => r.n = 0
        /\ probe.value = probe.maxValue => r.n = r.d

\* C9 amended: the same for value > 0; for value <= 0 the result is 0.
C9_LinearBoundsPositive ==
  (probe.result # <<>> /\ probe.scaleType = "linear" /\ probe.minValue < probe.maxValue) =>
    LET r == probe.result[1]
    IN  /\ r.d > 0
        /\ probe.value <= 0 => r.n = 0
        /\ probe.value > 0 =>
             /\ (probe.minValue < probe.value /\ probe.value < probe.maxValue)
                  => StrictlyInside(r)
             /\ probe.value = probe.minValue => r.n = 0
             /\ probe.value = probe.maxValue => r.n = r.d

\* C9 witness: a value strictly between a negative minValue and maxValue has
\* been normalised in linear mode.
C9_Witness ==
  /\ probe.result # <<>>
  /\ probe.scaleType = "linear"
  /\ probe.minValue < 0
  /\ 0 < probe.value /\ probe.value < probe.maxValue
  /\ StrictlyInside(probe.result[1])

AllValuesEqual == \A i, j \in 1..Len(words) : words[i].value = words[j].value

\* C10: when every word of the layout has the same value, of any sign, the
\* normalised value of each word is 0.5 under the layout's scale type and all
\* placed words have the same fontSize.
C10_EqualValues ==
  (pc # "pure" /\ AllValuesEqual) =>
    /\ \A i \in 1..Len(words) : NormalizedOf(words[i]) = Ratio(1, 2)
    /\ \A k, m \in 1..Len(placedWords) : placedWords[k].fontSize = placedWords[m].fontSize

\* C10 witness: a finished logarithmic layout of two placed words that share a
\* value that is not positive.
C10_Witness ==
  /\ pc = "done"
  /\ scaleType = "logarithmic"
  /\ Len(words) >= 2 /\ AllValuesEqual /\ words[1].value <= 0
  /\ Len(placedWords) >= 2

ProbedReferenceSize == Min2(probe.containerSize.width, probe.containerSize.height)

\* C12 as stated: for every positive container, every fontConfig and every
\* normalised value the returned size s satisfies 8 <= s <= 0.8 * min(width,
\* height).
C12_ClampAnyContainer ==
  probe.result # <<>> =>
    /\ Px(8) <= probe.result[1]
    /\ 10 * probe.result[1] <= 8 * ProbedReferenceSize

\* C12 amended: the same for min(width, height) >= 10; in a smaller container
\* the size is 0.8 * min(width, height), below 8.
C12_ClampFromTenPixels ==
  probe.result # <<>> =>
    /\ ProbedReferenceSize >= Px(10) =>
         /\ Px(8) <= probe.result[1]
         /\ 10 * probe.result[1] <= 8 * ProbedReferenceSize
    /\ ProbedReferenceSize < Px(10) =>
         /\ 10 * probe.result[1] = 8 * ProbedReferenceSize
         /\ probe.result[1] < Px(8)

\* C12 witness: a font size has been computed in a container of at least ten
\* pixels for a configuration that asks for more than the upper limit.
C12_Witness ==
  /\ probe.result # <<>>
  /\ ProbedReferenceSize = Px(MIN_DIMENSION)
  /\ probe.fontConfig.min = 50
  /\ 10 * probe.result[1] = 8 * ProbedReferenceSize

\* The finished run kept for comparison.
Reference == log[1].reference[1]

\* C13: two finished layout runs on the same words, dimensions and
\* configurations that drew the same rotations returned the same result,
\* whatever ran before or between them.
C13_Deterministic ==
  (pc = "done" /\ log[1].reference # <<>>) =>
    ((Reference.inputs = Inputs /\ Reference.draws = log[1].draws)
       => Reference.result = processedWords)

\* C13 witness: a run that placed two words after nine draws repeats an
\* earlier run, with a run on other inputs between the two.
C13_Witness ==
  /\ pc = "done"
  /\ log[1].reference # <<>>
  /\ Reference.run < log[1].run
  /\ log[1].others >= 1
  /\ Reference.inputs = Inputs
  /\ Reference.draws = log[1].draws
  /\ Len(log[1].draws) >= 9
  /\ Len(processedWords) = 2

\* C14: no step of a processWords call changes the caller's word list: the
\* same words in the same order, each with its text, value and color.
C14_InputUnchanged == [][(pc \in {"render", "forEach"}) => (words' = words)]_vars

\* C14 witness: a finished layout whose sort put the second input word first,
\* with a coloured word in the input and a word in the result.
C14_Witness ==
  /\ pc = "done"
  /\ Len(words) >= 2
  /\ sortedWords[1] = 2
  /\ \E i \in 1..Len(words) : words[i].color # "undefined"
  /\ processedWords # <<>>

\* The corner at index i of the probed box lies at centre + (sx * w/2, sy * h/2).
CornerAt(i, sx, sy) ==
  LET corner == probe.result[1].points[i]
  IN  /\ 2 * (corner.x - probe.centerX) = sx * probe.width
      /\ 2 * (corner.y - probe.centerY) = sy * probe.height

\* C15: with rotation 0 and spacing 0 the box is the axis-aligned rectangle
\* centred at (cx, cy): corners (cx - w/2, cy - h/2), (cx + w/2, cy - h/2),
\* (cx + w/2, cy + h/2), (cx - w/2, cy + h/2), in that order.
C15_UnrotatedBox ==
  (probe.result # <<>> /\ probe.rotation = Rot0 /\ probe.spacing = 0) =>
    /\ Len(probe.result[1].points) = 4
    /\ CornerAt(1, 0 - 1, 0 - 1)
    /\ CornerAt(2, 1, 0 - 1)
    /\ CornerAt(3, 1, 1)
    /\ CornerAt(4, 0 - 1, 1)

\* C15 witness: the box of a rectangle that is not a square has been built
\* with rotation 0 and spacing 0.
C15_Witness ==
  /\ probe.result # <<>>
  /\ probe.rotation = Rot0
  /\ probe.spacing = 0
  /\ probe.width # probe.height

\* (maxX - minX) * (maxY - minY) of a box.
AxisAlignedArea(box) ==
  (Bounds(box).maxX - Bounds(box).minX) * (Bounds(box).maxY - Bounds(box).minY)

RECURSIVE AxisAlignedAreaSum(_, _)
AxisAlignedAreaSum(processed, k) ==
  IF k = 0 THEN 0
  ELSE AxisAlignedAreaSum(processed, k - 1) + AxisAlignedArea(processed[k].boundingBox)

\* C16: the coverage statistic is the sum over the placed words of the area
\* (maxX - minX) * (maxY - minY) of the word's bounding box, divided by
\* width * height, times 100, rounded to one decimal, whatever the rotations.
C16_CoverageAxisAligned ==
  pc = "done" =>
    stats.coverage = Coverage(AxisAlignedAreaSum(processedWords, Len(processedWords)),
                              width * height)

\* The configured factor is a positive number (or a string that reads as one).
PositiveFactor(v) == ~JsIsNaN(JsNumber(v)) /\ v.type # "null" /\ JsNumber(v).num10 > 0

\* C17: every packingConfig App passes to WordCloud has factor > 0, a
\* configured factor that is not a positive number being replaced by the
\* default.
C17_FactorValidated ==
  probe.result # <<>> =>
    /\ probe.result[1].factor10 > 0
    /\ ~PositiveFactor(probe.factorValue)
         => probe.result[1].factor10 = APP_PACKING_CONFIG.factor10

\* C18: after any resize notifications the measured dimensions are at least
\* MIN_DIMENSION each way, and without a width or height prop processWords
\* runs with that dimension at least MIN_DIMENSION.
C18_MeasuredFloor ==
  /\ dimensions.width >= Px(MIN_DIMENSION)
  /\ dimensions.height >= Px(MIN_DIMENSION)
  /\ pc = "forEach" =>
       /\ provided.width = <<>> => width >= Px(MIN_DIMENSION)
       /\ provided.height = <<>> => height >= Px(MIN_DIMENSION)

\* C18 witness: processWords runs without size props at 100 x 100 while the
\* state still shows a layout made at width 125: the container has since
\* shrunk below the floor (no rectangle of the model measures exactly 100).
C18_Witness ==
  /\ pc = "forEach"
  /\ provided = NotProvided
  /\ dimensions = [width |-> Px(MIN_DIMENSION), height |-> Px(MIN_DIMENSION)]
  /\ width = Px(MIN_DIMENSION)
  /\ processedWords # <<>>
  /\ processedWords[1].x > Px(60)

\* The position in sortedWords of the k-th placed word.
SortedPosition(k) == CHOOSE i \in 1..Len(sortedWords) : sortedWords[i] = placedWords[k].ref

\* Math.sqrt((x - center.x)^2 + (y - center.y)^2)
DistanceToCentre(x, y) ==
  Sqrt((x - width \div 2) * (x - width \div 2) + (y - height \div 2) * (y - height \div 2))

\* C19: the committed position of every placed word is at the least distance
\* from the centre among the candidates accepted in that word's loop, and the
\* stored box is the box of exactly that position, rotation and size, which
\* is in bounds and clear of the words placed before it.
C19_ClosestCommitted ==
  /\ \A k \in 1..Len(placedWords) :
       LET p == placedWords[k]
           spacing == getWordSpacing(p.width, p.height, packingConfig,
                                     NormalizedOf(words[p.ref]))
       IN  /\ DistanceToCentre(p.x, p.y) = nearest[SortedPosition(k)]
           /\ p.boundingBox = getRotatedBoundingBox(p.x, p.y, p.width, p.height,
                                                    p.rotation, spacing)
           /\ InBounds(p.boundingBox, width, height, Margin(width, height, packingConfig))
           /\ ~HasOverlap(p.boundingBox, SubSeq(placedWords, 1, k - 1))
  /\ (pc = "forEach" /\ bestPosition # <<>>) =>
       /\ bestDistance = nearest[wordIndex]
       /\ bestDistance = DistanceToCentre(bestPosition[1].x, bestPosition[1].y)

\* The candidate of the current word at this attempt is valid under every
\* rotation that can be drawn for it.
SurelyAccepted(attempt) ==
  \A rotation \in RotationChoices(attempt, MaxAttemptsOf(packingConfig), packingConfig,
                                   rotationMode) :
    LET fontSize == FontSizeOf(CurWord)
        wordWidth == measureText(CurWord.text, fontSize)
        xy == getSpiralPosition(attempt, MaxAttemptsOf(packingConfig), NormalizedOf(CurWord),
                                width, height, packingConfig)
        box == getRotatedBoundingBox(xy.x, xy.y, wordWidth, fontSize, rotation,
                                     getWordSpacing(wordWidth, fontSize, packingConfig,
                                                    NormalizedOf(CurWord)))
    IN  /\ ~HasOverlap(box, placedWords)
        /\ InBounds(box, width, height, Margin(width, height, packingConfig))

\* C19 witness: the loop of the second word has ended with a best candidate
\* after it also accepted, at a later attempt, a candidate farther from the
\* centre.
C19_Witness ==
  /\ pc = "forEach"
  /\ wordIndex = 2 /\ wordIndex <= Len(sortedWords)
  /\ placed
  /\ bestPosition # <<>>
  /\ \E attempt \in 0..(attempts - 1) :
       /\ SurelyAccepted(attempt)
       /\ LET xy == getSpiralPosition(attempt, MaxAttemptsOf(packingConfig),
                                      NormalizedOf(CurWord), width, height, packingConfig)
          IN  DistanceToCentre(xy.x, xy.y) > bestDistance

\* The distance from the centre of the candidate tried last for the current word.
LastCandidateDistance ==
  LET xy == getSpiralPosition(attempts - 1, MaxAttemptsOf(packingConfig),
                              NormalizedOf(CurWord), width, height, packingConfig)
  IN  DistanceToCentre(xy.x, xy.y)

\* C20: the loop of a word stops at the first accepted candidate closer to
\* the centre than 10% of min(width, height), and an accepted candidate
\* farther than that does not stop it unless more than 80% of the attempts are
\* used, whatever the aspect ratio of the container.
C20_EarlyAcceptShorterSide ==
  (pc = "forEach" /\ wordIndex <= Len(sortedWords)) =>
    /\ (bestPosition # <<>> /\ bestDistance < Min2(width, height) \div 10) => placed
    /\ placed =>
         \/ LastCandidateDistance < Min2(width, height) \div 10
         \/ 10 * (attempts - 1) > 8 * MaxAttemptsOf(packingConfig)

\* The least attempt number a with a > maxAttempts * 0.8.
BudgetMark(maxAtt) == (8 * maxAtt) \div 10 + 1

\* The candidate of the current word at this attempt is valid under no
\* rotation that can be drawn for it.
SurelyRejected(attempt) ==
  \A rotation \in RotationChoices(attempt, MaxAttemptsOf(packingConfig), packingConfig,
                                   rotationMode) :
    LET fontSize == FontSizeOf(CurWord)
        wordWidth == measureText(CurWord.text, fontSize)
        xy == getSpiralPosition(attempt, MaxAttemptsOf(packingConfig), NormalizedOf(CurWord),
                                width, height, packingConfig)
        box == getRotatedBoundingBox(xy.x, xy.y, wordWidth, fontSize, rotation,
                                     getWordSpacing(wordWidth, fontSize, packingConfig,
                                                    NormalizedOf(CurWord)))
    IN  \/ HasOverlap(box, placedWords)
        \/ ~InBounds(box, width, height, Margin(width, height, packingConfig))

\* C21: the loop of a word stops once more than 80% of maxAttempts is
\* consumed, whether or not a candidate after the mark is valid: the attempt
\* numbered BudgetMark is the last one of every word, so that no word runs
\* more than BudgetMark + 1 iterations.
C21_StopsAtBudget ==
  /\ \A i \in 1..Len(consumed) : consumed[i] <= BudgetMark(MaxAttemptsOf(packingConfig)) + 1
  /\ pc = "forEach" => attempts <= BudgetMark(MaxAttemptsOf(packingConfig)) + 1

\* C21 (amended): after the mark the first valid candidate stops the loop,
\* a candidate that is not valid does not, and the loop of a word stops
\* before maxAttempts only at a valid candidate that is close to the centre
\* or comes after the mark.
C21_StopsAtValidPastBudget ==
  LET maxAttempts == MaxAttemptsOf(packingConfig)
  IN  /\ \A i \in 1..Len(consumed) :
           /\ consumed[i] < maxAttempts => i \in accepted
           /\ i \notin accepted => consumed[i] = maxAttempts
      /\ (pc = "forEach" /\ wordIndex <= Len(sortedWords) /\ attempts > 0) =>
           /\ lastValid => wordIndex \in accepted /\ ~SurelyRejected(attempts - 1)
           /\ ~lastValid => ~SurelyAccepted(attempts - 1)
           /\ attempts - 1 >= BudgetMark(maxAttempts) => placed = lastValid
           /\ attempts - 1 < BudgetMark(maxAttempts) =>
                placed = (lastValid /\ LastCandidateDistance < width \div 10)

\* C21 witness: the second word, which has a best candidate, has run all
\* maxAttempts iterations, the last ones after the mark, without stopping.
C21_Witness ==
  LET maxAttempts == MaxAttemptsOf(packingConfig)
  IN  /\ pc = "forEach"
      /\ Len(consumed) = 1 /\ wordIndex = 2 /\ wordIndex <= Len(sortedWords)
      /\ attempts = maxAttempts
      /\ ~placed
      /\ bestPosition # <<>>

\* The steps processWords and the effect around it have yet to take, at most:
\* per word still to do, maxAttempts iterations and the push after them.
StepsLeft ==
  LET perWord == MaxAttemptsOf(packingConfig) + 1
  IN  CASE pc = "render" -> Len(words) * perWord + 2
        [] pc = "forEach" -> (Len(sortedWords) + 1 - wordIndex) * perWord - attempts + 1
        [] OTHER -> 0

\* The code has a statement to execute next.
CanStep ==
  \/ pc = "render" /\ width # 0 /\ height # 0
  \/ /\ pc = "forEach"
     /\ wordIndex <= Len(sortedWords)
     /\ ~placed /\ attempts < MaxAttemptsOf(packingConfig)
     /\ RotationChoices(attempts, MaxAttemptsOf(packingConfig), packingConfig,
                        rotationMode) # {}
  \/ /\ pc = "forEach"
     /\ wordIndex <= Len(sortedWords)
     /\ placed \/ attempts >= MaxAttemptsOf(packingConfig)
  \/ pc = "forEach" /\ wordIndex > Len(sortedWords)

\* C22: processWords terminates and returns a result: until it has returned
\* it always has a next step, and every step brings it closer to the end.
\* The loop of a word makes at most maxAttempts iterations, and the attempt
\* number, which starts at 0 for every word, is used while it is below
\* maxAttempts (t in [0, 1)) and then goes up by one.
C22_Terminates ==
  /\ [](pc # "done" => CanStep)
  /\ [](StepsLeft >= 0 /\ (StepsLeft = 0 <=> pc = "done"))
  /\ [][StepsLeft' < StepsLeft]_vars
  /\ []((pc = "forEach") => (attempts >= 0 /\ attempts <= MaxAttemptsOf(packingConfig)))
  /\ [](\A i \in 1..Len(consumed) : consumed[i] <= MaxAttemptsOf(packingConfig))
  /\ [][(pc = "forEach" /\ pc' = pc /\ wordIndex' = wordIndex) =>
          (attempts < MaxAttemptsOf(packingConfig) /\ attempts' = attempts + 1)]_vars
  /\ [][(pc = "forEach" /\ wordIndex' # wordIndex) => (attempts' = 0)]_vars
  /\ [](pc = "done" => (Len(consumed) = Len(words) /\ processedWords = placedWords))

\* C22 witness: processWords has returned after the loop of a word made all
\* maxAttempts iterations.
C22_Witness ==
  /\ pc = "done"
  /\ Len(consumed) = 2
  /\ \E i \in 1..2 : consumed[i] = MaxAttemptsOf(packingConfig)

\* The probe of getSpiralPosition has been applied.
SpiralProbed == pc = "pure" /\ probe.fn = "getSpiralPosition" /\ probe.result # <<>>

\* maxRadius = 0.45 * min(width, height)
ProbedMaxRadius == (Min2(probe.width, probe.height) * 45) \div 100

\* C23: for every positive factor and every normalizedValue in [0, 1], the
\* spiral radius does not decrease from one attempt to the next over
\* 0 .. maxAttempts-1 and never exceeds maxRadius.
C23_RadiusBounded ==
  SpiralProbed =>
    LET radius == probe.result[1].radius
    IN  /\ \A a \in 1..probe.maxAttempts : radius[a] <= ProbedMaxRadius
        /\ \A a \in 1..(probe.maxAttempts - 1) : radius[a] <= radius[a + 1]

\* C24: at equal attempt, maxAttempts, container and packingConfig, a higher
\* normalizedValue yields an equal-or-smaller spiral radius, in
\* getSpiralPosition and in its earlier variant.
C24_HigherValueTighter ==
  SpiralProbed =>
    \A a \in 1..probe.maxAttempts :
      /\ probe.result[1].radiusHigher[a] <= probe.result[1].radius[a]
      /\ probe.result[1].earlierHigher[a] <= probe.result[1].earlier[a]

\* The rotation lies within window hundredths of a degree of one of bases.
WithinJitter(rotation, bases, window) ==
  \E base \in bases : Abs(rotation - base) <= window

\* C25: for every attempt in 0 .. maxAttempts-1 the rotation returned is
\* within the jitter window of an allowed base angle: in mode "any" with
\* bruteForce the base is the element of [0, 45, 90, -45] at index
\* floor(attempt / (maxAttempts / 4)), which is in 0..3, with jitter at most
\* 5 degrees; in mode "orthogonal" the base is 0 or -90 with jitter at most
\* 1 degree; in mode "any" without bruteForce the base is 0 or 90 with jitter
\* at most 2.5 degrees.  The rotations the layouts draw are among them.
C25_RotationPolicy ==
  (pc = "pure" /\ probe.fn = "getSpiralPosition.rotation" /\ probe.result # <<>>) =>
    LET index == (4 * probe.attempt) \div probe.maxAttempts
        bases == IF probe.rotationMode = "orthogonal" THEN {0, 0 - 9000}
                 ELSE IF probe.packingConfig.bruteForce
                      THEN {<<0, 4500, 9000, 0 - 4500>>[index + 1]}
                      ELSE {0, 9000}
        window == IF probe.rotationMode = "orthogonal" THEN 100
                  ELSE IF probe.packingConfig.bruteForce THEN 500 ELSE 250
    IN  /\ index \in 0..3
        /\ WithinJitter(probe.result[1].rotation, bases, window)
        /\ \A r \in probe.result[1].layout : WithinJitter(10 * r.deg10, bases, window)

\* C25 witness: in the last bucket of attempts of mode "any" with bruteForce,
\* the rotation has the full jitter below the base -45.
C25_Witness ==
  /\ pc = "pure" /\ probe.fn = "getSpiralPosition.rotation" /\ probe.result # <<>>
  /\ probe.rotationMode = "any" /\ probe.packingConfig.bruteForce
  /\ probe.attempt = probe.maxAttempts - 1 /\ probe.maxAttempts > 4
  /\ probe.result[1].rotation = 0 - 5000

\* (b - a) x (p - a): the side of the line through a and b that p is on.
SideOf(p, a, b) == (b.x - a.x) * (p.y - a.y) - (b.y - a.y) * (p.x - a.x)

\* The line through edge i of box P separates the two boxes strictly.
SeparatedByEdge(P, Q, i) ==
  LET a == P.points[i]
      b == P.points[(i % Len(P.points)) + 1]
      sidesP == {SideOf(P.points[k], a, b) : k \in DOMAIN P.points}
      sidesQ == {SideOf(Q.points[k], a, b) : k \in DOMAIN Q.points}
  IN  SetMax(sidesP) < SetMin(sidesQ) \/ SetMax(sidesQ) < SetMin(sidesP)

\* Two closed convex quadrilaterals share a point iff no edge of either
\* separates them.
SharePoint(P, Q) ==
  ~\E i \in 1..4 : SeparatedByEdge(P, Q, i) \/ SeparatedByEdge(Q, P, i)

IntersectProbed == pc = "pure" /\ probe.fn = "checkBoundingBoxesIntersect" /\ probe.result # <<>>

SomeEdgesCross(P, Q) ==
  \E i \in 1..4, j \in 1..4 :
    doLineSegmentsIntersect(P.points[i], P.points[(i % 4) + 1],
                            Q.points[j], Q.points[(j % 4) + 1])

\* C26: on two rectangles of positive width and height and any rotation,
\* checkBoundingBoxesIntersect returns true if the closed rectangles share a
\* point, also when one lies inside the other and no edges cross, and false
\* if they are disjoint, in either argument order.
C26_IntersectExact ==
  IntersectProbed =>
    /\ probe.result[1].current = SharePoint(probe.box1, probe.box2)
    /\ probe.result[1].swapped = SharePoint(probe.box1, probe.box2)

\* C26 witness: the second rectangle lies inside the first, rotated against
\* it, no edges cross, and the result is true.
C26_Witness ==
  /\ IntersectProbed
  /\ ~SomeEdgesCross(probe.box1, probe.box2)
  /\ probe.box1.points[1].y # probe.box1.points[2].y
  /\ probe.result[1].current

\* C27: the function with the bounds test returns the same boolean as the
\* earlier variant without it, for every pair of boxes in either order.
C27_QuickRejectPure ==
  IntersectProbed =>
    /\ probe.result[1].current = probe.result[1].earlier
    /\ probe.result[1].swapped = probe.result[1].earlierSwapped

\* C27 witness: the bounds test rejects a pair, and a pair whose bounds touch
\* passes it and is found to intersect.
C27_Witness ==
  /\ IntersectProbed
  /\ Bounds(probe.box1).maxX = Bounds(probe.box2).minX
  /\ probe.result[1].current
  /\ probe.result[1].earlier

SpacingProbed == pc = "pure" /\ probe.fn = "getWordSpacing" /\ probe.result # <<>>

\* C28: getWordSpacing returns max(minSpacing, min(width, height) * 0.15) *
\* factor under the uniform strategy and that value times
\* (0.5 + 0.5 * normalizedValue) under the adaptive strategy; hence the
\* adaptive spacing is between half of and equal to the uniform spacing and
\* is never below 0.
C28_SpacingFormula ==
  SpacingProbed =>
    LET nv == probe.normalizedValue
        base == Max2(Px(probe.packingConfig.minSpacing),
                     (Min2(probe.width, probe.height) * 15) \div 100)
        uniform == probe.result[1].uniform
        adaptive == probe.result[1].adaptive
    IN  /\ uniform = (base * probe.packingConfig.factor10) \div 10
        /\ adaptive = (uniform * (nv.d + nv.n)) \div (2 * nv.d)
        /\ uniform \div 2 <= adaptive
        /\ adaptive <= uniform
        /\ adaptive >= 0

\* C28 witness: a word whose own size sets the base spacing, at a normalized
\* value strictly between 0 and 1, has an adaptive spacing strictly between
\* half the uniform spacing and the uniform spacing.
C28_Witness ==
  /\ SpacingProbed
  /\ (Min2(probe.width, probe.height) * 15) \div 100 > Px(probe.packingConfig.minSpacing)
  /\ probe.normalizedValue.n > 0 /\ probe.normalizedValue.n < probe.normalizedValue.d
  /\ probe.result[1].uniform \div 2 < probe.result[1].adaptive
  /\ probe.result[1].adaptive < probe.result[1].uniform

\* C29: the displayed layout reflects the current props: after a change of
\* the rotationMode prop alone the layout is recomputed, so that
\* processedWords is the result of a processWords run made with the current
\* rotationMode.
C29_LayoutFollowsMode ==
  /\ pc = "done" => layoutMode = rotationMode
  /\ (pc = "done" /\ rotationMode = "orthogonal") =>
       \A k \in 1..Len(processedWords) : processedWords[k].rotation \in {Rot0, RotM90}

\* A step inside the attempt loop of one word.
LoopStep == pc = "forEach" /\ pc' = pc /\ wordIndex' = wordIndex

\* The best candidate of the current word stays once it is set, and it is the
\* one pushed when the loop ends.
FirstAcceptedStays ==
  /\ (LoopStep /\ bestPosition # <<>>) =>
       (bestPosition' = bestPosition /\ bestBox' = bestBox /\ bestDistance' = bestDistance)
  /\ (pc = "forEach" /\ wordIndex' = wordIndex + 1 /\ bestPosition # <<>>) =>
       /\ Len(placedWords') = Len(placedWords) + 1
       /\ placedWords'[Len(placedWords')].x = bestPosition[1].x
       /\ placedWords'[Len(placedWords')].y = bestPosition[1].y
       /\ placedWords'[Len(placedWords')].rotation = bestPosition[1].rotation

====
